---- MODULE Spec2Model ----
(***************************************************************************)
(* Capital & risk engine, position lifecycle and exit evaluation of the    *)
(* qd-engine trading accounts.                                             *)
(*                                                                         *)
(* Money is counted in cents, percentages in hundredths (85 = 0.85 of the  *)
(* working capital, 150 = 1.50 % of P&L), time in seconds.                 *)
(***************************************************************************)
EXTENDS Integers, Sequences, FiniteSets, TLC

VARIABLES
    rk,        \* risk check: the inputs of one can_open_position call
    rkOut,     \* risk check: what the call returned (NoResult before it ran)
    cap,       \* working capital: a RiskManager, its database rows, brokerage
               \* positions and clock, and what get_working_capital returned
    cy,        \* trading day of one account: brokerage, database, executor
    ex,        \* exits of one account: positions, trades, outcomes and the
               \* executor's high-water marks
    fn         \* one call of a function of the sizing, scoring or learning
               \* code: its inputs and, once it ran, what it returned

vars == <<rk, rkOut, cap, cy, ex, fn>>

(***************************************************************************)
(* Helpers                                                                 *)
(***************************************************************************)
NoVal == 0 - 1                 \* a key the configuration dict does not have
Dollars(d) == d * 100
Abs(x) == IF x < 0 THEN 0 - x ELSE x

RECURSIVE SumSeq(_)
SumSeq(s) == IF s = << >> THEN 0 ELSE Head(s) + SumSeq(Tail(s))

(***************************************************************************)
(* shared/config.py                                                        *)
(***************************************************************************)
STARTING_CAPITAL == Dollars(10000)

NoLimits ==
    [starting_capital |-> STARTING_CAPITAL,
     max_invested_pct |-> NoVal, max_position_pct |-> NoVal,
     max_per_trade_pct |-> NoVal, max_positions |-> NoVal,
     max_concurrent_positions |-> NoVal, max_trades_per_day |-> NoVal,
     max_daily_risk_pct |-> NoVal]

ACCOUNT_CONFIGS ==
    [quiver_strat |-> [NoLimits EXCEPT !.max_invested_pct = 85,
                                       !.max_position_pct = 15,
                                       !.max_positions = 12],
     day_trader   |-> [NoLimits EXCEPT !.max_invested_pct = 90,
                                       !.max_daily_risk_pct = 3,
                                       !.max_per_trade_pct = 12,
                                       !.max_concurrent_positions = 10],
     autonomous   |-> [NoLimits EXCEPT !.max_invested_pct = 85,
                                       !.max_position_pct = 20,
                                       !.max_positions = 10,
                                       !.max_trades_per_day = 8],
     signal_echo  |-> [NoLimits EXCEPT !.max_invested_pct = 85,
                                       !.max_position_pct = 15,
                                       !.max_positions = 12,
                                       !.max_trades_per_day = 20,
                                       !.max_daily_risk_pct = 3],
     \* a configuration holding only the starting capital: every limit is
     \* then read through the defaults of self.config.get(key, default)
     unlimited    |-> NoLimits]

AccountIds == DOMAIN ACCOUNT_CONFIGS

\* dict.get(key, default)
ConfigGet(cfg, key, default) == IF cfg[key] = NoVal THEN default ELSE cfg[key]

MaxInvestedPct(cfg) == ConfigGet(cfg, "max_invested_pct", 60)
MaxPositionPct(cfg) ==
    ConfigGet(cfg, "max_position_pct", ConfigGet(cfg, "max_per_trade_pct", 10))
MaxPositions(cfg) ==
    ConfigGet(cfg, "max_positions", ConfigGet(cfg, "max_concurrent_positions", 12))

(***************************************************************************)
(* shared/alpaca_client.py: the reads of the brokerage.  A book is the     *)
(* sequence of positions the brokerage holds for the account; ok is FALSE  *)
(* when the request to the brokerage fails.                                *)
(***************************************************************************)
\* get_positions: a failed request is logged and answered with []
GetPositions(book, ok) == IF ok THEN book ELSE << >>

\* get_position: a failed request (like "no such position") is answered None
HasPosition(book, symbol, ok) ==
    ok /\ \E i \in 1..Len(book) : book[i].symbol = symbol

\* get_invested_value: the sum of abs(market_value) over get_positions()
GetInvestedValue(book, ok) ==
    LET positions == GetPositions(book, ok)
    IN  SumSeq([i \in 1..Len(positions) |-> Abs(positions[i].market_value)])
GetPositionCount(book, ok) == Len(GetPositions(book, ok))

(***************************************************************************)
(* shared/risk_manager.py                                                  *)
(***************************************************************************)
\* a plausible slip: the except branch falls back to the starting capital
WorkingCapitalStartingOnFailure(cfg, realized, book, ok) ==
    IF ~ok THEN cfg.starting_capital
    ELSE cfg.starting_capital + realized
           + SumSeq([i \in 1..Len(book) |-> book[i].unrealized_pl])

\* get_working_capital, given what _get_realized_pnl returned
WorkingCapital(cfg, realized, book, ok) ==
    LET positions == GetPositions(book, ok)
    IN  cfg.starting_capital + realized
          + SumSeq([i \in 1..Len(positions) |-> positions[i].unrealized_pl])

Decision(allowed, reason, wc, invested, count, existing) ==
    [allowed |-> allowed, reason |-> reason, wc |-> wc, invested |-> invested,
     count |-> count, existing |-> existing]

\* a plausible slip: the circuit breaker check left out
RiskChecksNoBreaker(cfg, wc, invested, count, existing, notional) ==
    IF (invested + notional) * 100 > wc * MaxInvestedPct(cfg)
    THEN Decision(FALSE, "max_invested", wc, invested, count, existing)
    ELSE IF notional * 100 > wc * MaxPositionPct(cfg)
    THEN Decision(FALSE, "max_position", wc, invested, count, existing)
    ELSE IF count >= MaxPositions(cfg)
    THEN Decision(FALSE, "max_positions", wc, invested, count, existing)
    ELSE IF existing
    THEN Decision(FALSE, "already_holding", wc, invested, count, existing)
    ELSE Decision(TRUE, "OK", wc, invested, count, existing)

\* a plausible slip: the per-position check placed before the invested check
RiskChecksPositionFirst(cfg, wc, invested, count, existing, notional) ==
    IF invested * 100 > wc * 105
    THEN Decision(FALSE, "circuit_breaker", wc, invested, count, existing)
    ELSE IF notional * 100 > wc * MaxPositionPct(cfg)
    THEN Decision(FALSE, "max_position", wc, invested, count, existing)
    ELSE IF (invested + notional) * 100 > wc * MaxInvestedPct(cfg)
    THEN Decision(FALSE, "max_invested", wc, invested, count, existing)
    ELSE IF count >= MaxPositions(cfg)
    THEN Decision(FALSE, "max_positions", wc, invested, count, existing)
    ELSE IF existing
    THEN Decision(FALSE, "already_holding", wc, invested, count, existing)
    ELSE Decision(TRUE, "OK", wc, invested, count, existing)

\* a plausible slip: >= for > at the ceilings, > for >= at the count
RiskChecksOffByOne(cfg, wc, invested, count, existing, notional) ==
    IF invested * 100 > wc * 105
    THEN Decision(FALSE, "circuit_breaker", wc, invested, count, existing)
    ELSE IF (invested + notional) * 100 >= wc * MaxInvestedPct(cfg)
    THEN Decision(FALSE, "max_invested", wc, invested, count, existing)
    ELSE IF notional * 100 >= wc * MaxPositionPct(cfg)
    THEN Decision(FALSE, "max_position", wc, invested, count, existing)
    ELSE IF count > MaxPositions(cfg)
    THEN Decision(FALSE, "max_positions", wc, invested, count, existing)
    ELSE IF existing
    THEN Decision(FALSE, "already_holding", wc, invested, count, existing)
    ELSE Decision(TRUE, "OK", wc, invested, count, existing)

\* can_open_position, lines 86-129: the five checks on the values it read
RiskChecks(cfg, wc, invested, count, existing, notional) ==
    IF invested * 100 > wc * 105
    THEN Decision(FALSE, "circuit_breaker", wc, invested, count, existing)
    ELSE IF (invested + notional) * 100 > wc * MaxInvestedPct(cfg)
    THEN Decision(FALSE, "max_invested", wc, invested, count, existing)
    ELSE IF notional * 100 > wc * MaxPositionPct(cfg)
    THEN Decision(FALSE, "max_position", wc, invested, count, existing)
    ELSE IF count >= MaxPositions(cfg)
    THEN Decision(FALSE, "max_positions", wc, invested, count, existing)
    ELSE IF existing
    THEN Decision(FALSE, "already_holding", wc, invested, count, existing)
    ELSE Decision(TRUE, "OK", wc, invested, count, existing)

\* can_open_position: oks[1..4] tell which of its four brokerage requests
\* succeed (working capital, invested value, position count, the symbol)
CanOpenPosition(cfg, realized, book, oks, symbol, notional) ==
    RiskChecks(cfg,
               WorkingCapital(cfg, realized, book, oks[1]),
               GetInvestedValue(book, oks[2]),
               GetPositionCount(book, oks[3]),
               HasPosition(book, symbol, oks[4]),
               notional)

\* round(x, 2) of the amount whole + frac/10000 cents, 0 <= frac < 10000
\* (Python rounds an exact tie to the even neighbour)
RoundCents(whole, frac) ==
    IF frac < 5000 THEN whole
    ELSE IF frac > 5000 THEN whole + 1
    ELSE IF whole % 2 = 0 THEN whole ELSE whole + 1

\* plausible slips of calculate_position_size: the amount is rounded up to
\* the next cent; the confidence scale has no floor of one half; the adaptive
\* ceiling replaces the size whenever there is one (max in place of min)
CalculatePositionSizeRoundsUp(cfg, wc, confidence, adaptivePct) ==
    LET scale == IF confidence < 50 THEN 50
                 ELSE IF confidence > 100 THEN 100 ELSE confidence
        x == wc * MaxPositionPct(cfg)
        q == x \div 10000
        r == x % 10000
        whole == q * scale + (r * scale) \div 10000
        frac == (r * scale) % 10000
        y == wc * adaptivePct
        aWhole == y \div 100
        aFrac == (y % 100) * 100
        capped == adaptivePct # NoVal
                    /\ (aWhole < whole \/ (aWhole = whole /\ aFrac < frac))
    IN  IF capped THEN (IF aFrac > 0 THEN aWhole + 1 ELSE aWhole)
        ELSE (IF frac > 0 THEN whole + 1 ELSE whole)

CalculatePositionSizeNoFloor(cfg, wc, confidence, adaptivePct) ==
    LET scale == IF confidence > 100 THEN 100 ELSE confidence
        x == wc * MaxPositionPct(cfg)
        q == x \div 10000
        r == x % 10000
        whole == q * scale + (r * scale) \div 10000
        frac == (r * scale) % 10000
        y == wc * adaptivePct
        aWhole == y \div 100
        aFrac == (y % 100) * 100
        capped == adaptivePct # NoVal
                    /\ (aWhole < whole \/ (aWhole = whole /\ aFrac < frac))
    IN  IF capped THEN RoundCents(aWhole, aFrac) ELSE RoundCents(whole, frac)

CalculatePositionSizeAdaptiveReplaces(cfg, wc, confidence, adaptivePct) ==
    LET scale == IF confidence < 50 THEN 50
                 ELSE IF confidence > 100 THEN 100 ELSE confidence
        x == wc * MaxPositionPct(cfg)
        q == x \div 10000
        r == x % 10000
        whole == q * scale + (r * scale) \div 10000
        frac == (r * scale) % 10000
        y == wc * adaptivePct
        aWhole == y \div 100
        aFrac == (y % 100) * 100
    IN  IF adaptivePct # NoVal THEN RoundCents(aWhole, aFrac)
        ELSE RoundCents(whole, frac)

\* calculate_position_size without max_override (no caller passes it):
\* working_capital * max_position_pct * clamp(confidence / 100, 0.5, 1.0),
\* capped by working_capital * adaptive_pct when the adaptive_config table has
\* a max_position_pct row (adaptivePct, NoVal when it has none), rounded to
\* cents.  Amounts are kept as whole cents plus ten-thousandths of a cent.
CalculatePositionSize(cfg, wc, confidence, adaptivePct) ==
    LET scale == IF confidence < 50 THEN 50
                 ELSE IF confidence > 100 THEN 100 ELSE confidence
        x == wc * MaxPositionPct(cfg)
        q == x \div 10000
        r == x % 10000
        whole == q * scale + (r * scale) \div 10000
        frac == (r * scale) % 10000
        y == wc * adaptivePct
        aWhole == y \div 100
        aFrac == (y % 100) * 100
        capped == adaptivePct # NoVal
                    /\ (aWhole < whole \/ (aWhole = whole /\ aFrac < frac))
    IN  IF capped THEN RoundCents(aWhole, aFrac) ELSE RoundCents(whole, frac)

\* check_daily_loss_limit, given the working capital it computed, the rows
\* get_trade_outcomes(limit=100) answered and the positions get_positions
\* answered; every outcome of the run was recorded today
CheckDailyLossLimit(cfg, wc, outcomes, positions) ==
    IF cfg.max_daily_risk_pct = NoVal THEN [allowed |-> TRUE, pnl |-> 0]
    ELSE LET todays == SumSeq([i \in 1..Len(outcomes) |-> outcomes[i].realized_pnl])
             unrealized == SumSeq([i \in 1..Len(positions) |->
                                     positions[i].unrealized_intraday_pl])
             total == todays + unrealized
         IN  [allowed |-> ~(total * 100 < 0 - wc * cfg.max_daily_risk_pct),
              pnl |-> total]

\* check_max_trades_per_day, given the number of rows of get_todays_trades
CheckMaxTradesPerDay(cfg, count) ==
    IF cfg.max_trades_per_day = NoVal THEN [allowed |-> TRUE, count |-> 0]
    ELSE [allowed |-> count < cfg.max_trades_per_day, count |-> count]

(***************************************************************************)
(* Exit evaluation of one position in one monitoring cycle.  P&L % and     *)
(* thresholds are in hundredths of a percent.  Each evaluation answers     *)
(* reason ("none": the position stays open), mark (the high-water mark the *)
(* map holds afterwards, NoMark: no entry), high (current_high), floor     *)
(* (the stop applied, NoMark: none), trail (the trailing stop if it is     *)
(* active), stop and target.                                               *)
(***************************************************************************)
\* exits: no value (a missing row, key or map entry; P&L % and floors are
\* far above it)
NoMark == 0 - 100000

\* account2_daytrader/config.py
STRATEGIES ==
    [momentum |-> [target_pct |-> 300, stop_pct |-> 150,
                   trail_activate_pct |-> 100, trail_offset_pct |-> 50],
     gap_fill |-> [target_pct |-> NoVal, stop_pct |-> 200,
                   trail_activate_pct |-> 150, trail_offset_pct |-> 75],
     mean_reversion |-> [target_pct |-> 250, stop_pct |-> 100,
                         trail_activate_pct |-> 75, trail_offset_pct |-> 40],
     vwap_bounce |-> [target_pct |-> 175, stop_pct |-> 75,
                      trail_activate_pct |-> 50, trail_offset_pct |-> 30],
     trending |-> [target_pct |-> 200, stop_pct |-> 100,
                   trail_activate_pct |-> 75, trail_offset_pct |-> 40]]

\* STRATEGIES.get(strategy, {})
StrategyConfig(strategy) ==
    IF strategy \in DOMAIN STRATEGIES THEN STRATEGIES[strategy]
    ELSE [target_pct |-> NoVal, stop_pct |-> NoVal,
          trail_activate_pct |-> NoVal, trail_offset_pct |-> NoVal]

\* account3_signal_echo/config.py
TRAIL_ACTIVATE_PCT == 150
TRAIL_OFFSET_PCT == 75

\* account1_quiver/config.py
DEFAULT_STOP_LOSS_PCT == 800
DEFAULT_TARGET_RETURN_PCT == 1500

\* a number that Python takes as true in a condition
Truthy(x) == x # NoVal /\ x # 0

\* self._high_water_marks.get(symbol, 0)
MarkOrZero(mark) == IF mark = NoMark THEN 0 ELSE mark

Evaluation(reason, mark, high, floor, trail, stop, target) ==
    [reason |-> reason, mark |-> mark, high |-> high, floor |-> floor,
     trail |-> trail, stop |-> stop, target |-> target]

\* a plausible slip: the comparison of the two stops reversed
DayTraderEvaluateLooserOnly(pnl, mark, strategy, adaptive) ==
    LET config == StrategyConfig(strategy)
        target_pct == ConfigGet(config, "target_pct", 200)
        stop_pct == IF adaptive # NoVal THEN adaptive
                    ELSE ConfigGet(config, "stop_pct", 100)
        newMark == IF pnl > MarkOrZero(mark) THEN pnl ELSE mark
        current_high == MarkOrZero(newMark)
        active == /\ Truthy(config.trail_activate_pct)
                  /\ Truthy(config.trail_offset_pct)
                  /\ current_high >= config.trail_activate_pct
        trailing_stop == current_high - config.trail_offset_pct
        effective_stop == IF active /\ trailing_stop < 0 - stop_pct
                          THEN trailing_stop ELSE 0 - stop_pct
        reason == IF pnl <= effective_stop
                  THEN (IF effective_stop > 0 - stop_pct THEN "trailing_stop"
                        ELSE "stop_loss")
                  ELSE IF pnl >= target_pct THEN "target_hit"
                  ELSE "none"
    IN  Evaluation(reason, IF reason = "none" THEN newMark ELSE NoMark,
                   current_high, effective_stop,
                   IF active THEN trailing_stop ELSE NoMark, stop_pct, target_pct)

\* DayTraderExecutor.manage_positions, lines 105-154, for one position with a
\* trade: mark is the entry of the map for the symbol, adaptive the stop_pct
\* row of adaptive_config for the strategy (NoVal: none)
DayTraderEvaluate(pnl, mark, strategy, adaptive) ==
    LET config == StrategyConfig(strategy)
        target_pct == ConfigGet(config, "target_pct", 200)
        stop_pct == IF adaptive # NoVal THEN adaptive
                    ELSE ConfigGet(config, "stop_pct", 100)
        newMark == IF pnl > MarkOrZero(mark) THEN pnl ELSE mark
        current_high == MarkOrZero(newMark)
        active == /\ Truthy(config.trail_activate_pct)
                  /\ Truthy(config.trail_offset_pct)
                  /\ current_high >= config.trail_activate_pct
        trailing_stop == current_high - config.trail_offset_pct
        effective_stop == IF active /\ trailing_stop > 0 - stop_pct
                          THEN trailing_stop ELSE 0 - stop_pct
        reason == IF pnl <= effective_stop
                  THEN (IF effective_stop > 0 - stop_pct THEN "trailing_stop"
                        ELSE "stop_loss")
                  ELSE IF pnl >= target_pct THEN "target_hit"
                  ELSE "none"
    IN  Evaluation(reason, IF reason = "none" THEN newMark ELSE NoMark,
                   current_high, effective_stop,
                   IF active THEN trailing_stop ELSE NoMark, stop_pct, target_pct)

\* SignalEchoExecutor.manage_positions, lines 130-147, for one position with
\* a trade: no fixed stop and no target
SignalEchoEvaluate(pnl, mark) ==
    LET newMark == IF pnl > MarkOrZero(mark) THEN pnl ELSE mark
        current_high == MarkOrZero(newMark)
        active == /\ Truthy(TRAIL_ACTIVATE_PCT) /\ Truthy(TRAIL_OFFSET_PCT)
                  /\ current_high >= TRAIL_ACTIVATE_PCT
        trailing_stop == current_high - TRAIL_OFFSET_PCT
        reason == IF active /\ pnl <= trailing_stop THEN "trailing_stop"
                  ELSE "none"
    IN  Evaluation(reason, IF reason = "none" THEN newMark ELSE NoMark,
                   current_high, IF active THEN trailing_stop ELSE NoMark,
                   IF active THEN trailing_stop ELSE NoMark, NoVal, NoVal)

\* Executor.check_exit_conditions, lines 256-282, for one position with a
\* trade: the thresholds of the trade row (NoVal: null), expired tells
\* whether the trade is older than its time horizon
QuiverEvaluate(pnl, stop_loss_pct, target_return_pct, expired) ==
    LET stop_pct == IF Truthy(stop_loss_pct) THEN stop_loss_pct
                    ELSE DEFAULT_STOP_LOSS_PCT
        target_pct == IF Truthy(target_return_pct) THEN target_return_pct
                      ELSE DEFAULT_TARGET_RETURN_PCT
        reason == IF pnl <= 0 - Abs(stop_pct) THEN "stop_loss"
                  ELSE IF pnl >= Abs(target_pct) THEN "target_hit"
                  ELSE IF expired THEN "time_horizon_expired"
                  ELSE "none"
    IN  Evaluation(reason, NoMark, 0, 0 - Abs(stop_pct), NoMark,
                   Abs(stop_pct), Abs(target_pct))

(***************************************************************************)
(* Values of the parts of the state a specification does not use           *)
(***************************************************************************)
AllOk == <<TRUE, TRUE, TRUE, TRUE>>
NoResult == [allowed |-> FALSE, reason |-> "none", wc |-> 0, invested |-> 0,
             count |-> 0, existing |-> FALSE]
RiskIdle == [account |-> "quiver_strat", realized |-> 0, book |-> << >>,
             oks |-> AllOk, symbol |-> "AAPL", notional |-> 0]
NoCache == [set |-> FALSE, pnl |-> 0]
NoPos == [side |-> "none", basis |-> 0, pnl |-> 0, lots |-> 0]
NoDecision == [made |-> FALSE, allowed |-> FALSE, reason |-> "none", wc |-> 0,
               invested |-> 0, notional |-> 0, trueWc |-> 0, trueInvested |-> 0]
CySymbols == <<"AAPL", "TSLA">>
CyIdle ==
    [account |-> "day_trader",
     pos |-> [s \in {CySymbols[i] : i \in 1..Len(CySymbols)} |-> NoPos],
     pending |-> << >>, outcomes |-> << >>, trades |-> 0, cache |-> NoCache,
     queue |-> << >>, last |-> NoDecision,
     breaker |-> FALSE, openedAfterBreaker |-> FALSE,
     lossHit |-> FALSE, allowedAfterLossHit |-> FALSE, clean |-> TRUE]

\* no function call in progress
FnIdle == [op |-> "none"]

\* the symbols the exit handlers can meet: one symbol, held by one position
\* after another, which is where marks and trade rows of an earlier position
\* meet a later one
ExSymbols == <<"AAPL">>
\* a slot of the brokerage book: the position, the close requested for it,
\* and what was observed of it (outcomes recorded, highest P&L % the
\* monitoring cycles saw, floor of the last evaluation, mark lost in a restart)
NoHold == [held |-> FALSE, pnl |-> 0, closing |-> FALSE, trade |-> 0,
           outcomes |-> 0, seenMax |-> NoMark, floor |-> NoMark, lost |-> FALSE]
\* the handler that ran last and the symbols get_positions reported to it
NoHandler == [op |-> "none", reported |-> {}]
NoAct == [reason |-> "none", pnl |-> 0, stop |-> 0, target |-> 0,
          trail |-> NoMark, high |-> 0, seen |-> NoMark, strategy |-> "",
          lost |-> FALSE, requested |-> FALSE]
ExIdle ==
    [account |-> "day_trader",
     pos |-> [s \in {ExSymbols[i] : i \in 1..Len(ExSymbols)} |-> NoHold],
     trades |-> << >>,
     hwm |-> [s \in {ExSymbols[i] : i \in 1..Len(ExSymbols)} |-> NoMark],
     act |-> [s \in {ExSymbols[i] : i \in 1..Len(ExSymbols)} |-> NoAct],
     adaptive |-> NoVal, last |-> NoHandler]

Tickers == <<"AAPL", "MSFT", "NVDA", "AMD", "TSLA", "META", "GOOG", "AMZN",
             "NFLX", "INTC", "ORCL", "IBM", "CSCO">>

\* a position opened today: its intraday P&L is its whole unrealized P&L
Position(symbol, mv, upl) ==
    [symbol |-> symbol, market_value |-> mv, unrealized_pl |-> upl,
     unrealized_intraday_pl |-> upl]

(***************************************************************************)
(* shared/database.py and RiskManager._get_realized_pnl: the realized P&L  *)
(* and its cache                                                           *)
(***************************************************************************)
REALIZED_PNL_CACHE_TTL == 300

\* get_trade_outcomes: the `limit` most recent rows (the table is kept oldest
\* first here); a failed query is logged and answered with []
DbGetTradeOutcomes(table, limit, ok) ==
    IF ~ok THEN << >>
    ELSE IF Len(table) <= limit THEN table
    ELSE SubSeq(table, Len(table) - limit + 1, Len(table))

\* a plausible slip: a cache that never expires
GetRealizedPnlNoExpiry(cache, cacheTime, now, outcomes) ==
    IF cache.set
    THEN [pnl |-> cache.pnl, cache |-> cache, time |-> cacheTime, fetched |-> FALSE]
    ELSE LET pnl == SumSeq([i \in 1..Len(outcomes) |-> outcomes[i].realized_pnl])
         IN  [pnl |-> pnl, cache |-> [set |-> TRUE, pnl |-> pnl], time |-> now,
              fetched |-> TRUE]

\* _get_realized_pnl at monotonic time now; outcomes is what
\* db.get_trade_outcomes(account_id, limit=10000) answers if it is asked.
\* Returns the P&L and the new cache (value and time).  Database never raises,
\* so the except branch of lines 46-48 is not taken.
GetRealizedPnl(cache, cacheTime, now, outcomes) ==
    IF cache.set /\ now - cacheTime < REALIZED_PNL_CACHE_TTL
    THEN [pnl |-> cache.pnl, cache |-> cache, time |-> cacheTime, fetched |-> FALSE]
    ELSE LET pnl == SumSeq([i \in 1..Len(outcomes) |-> outcomes[i].realized_pnl])
         IN  [pnl |-> pnl, cache |-> [set |-> TRUE, pnl |-> pnl], time |-> now,
              fetched |-> TRUE]

(***************************************************************************)
(* Working capital over time: one RiskManager, the trade_outcomes table,   *)
(* one position that is opened, repriced and closed, and a clock.          *)
(***************************************************************************)
MaxOutcomes == 2          \* closes recorded in one run
MaxTicks == 4             \* clock ticks in one run
TickSeconds == REALIZED_PNL_CACHE_TTL \div 2

CapUnrealized == { 0, Dollars(300), 0 - Dollars(400) }
CapBasis == Dollars(1000)

NoCall == [called |-> FALSE, value |-> 0, realized |-> 0, at |-> 0,
           dbOk |-> TRUE, posOk |-> TRUE, fetched |-> FALSE,
           tableSum |-> 0, liveUnrealized |-> 0]

CapIdle ==
    [account |-> "quiver_strat", outcomes |-> << >>, book |-> << >>,
     cache |-> NoCache, cacheTime |-> 0, now |-> 0, ticks |-> 0, out |-> NoCall,
     refreshSum |-> 0, refreshOk |-> TRUE]

CapInit ==
    /\ cap \in { [CapIdle EXCEPT !.account = a] : a \in {"quiver_strat", "day_trader"} }
    /\ rk = RiskIdle
    /\ rkOut = NoResult
    /\ cy = CyIdle
    /\ ex = ExIdle
    /\ fn = FnIdle

\* time passes
CapTick ==
    /\ cap.ticks < MaxTicks
    /\ cap' = [cap EXCEPT !.ticks = @ + 1, !.now = @ + TickSeconds]
    /\ UNCHANGED <<rk, rkOut, cy, ex, fn>>

\* an order fills: the brokerage shows the position
CapOpen ==
    /\ cap.book = << >>
    /\ Len(cap.outcomes) < MaxOutcomes
    /\ cap' = [cap EXCEPT !.book = <<Position("AAPL", CapBasis, 0)>>]
    /\ UNCHANGED <<rk, rkOut, cy, ex, fn>>

\* the market moves the position
CapPriceMove ==
    /\ cap.book # << >>
    /\ \E u \in CapUnrealized :
          /\ u # cap.book[1].unrealized_pl
          /\ cap' = [cap EXCEPT !.book = <<Position("AAPL", CapBasis + u, u)>>]
    /\ UNCHANGED <<rk, rkOut, cy, ex, fn>>

\* _close_and_record: the position is closed at the brokerage and one
\* trade outcome with realized_pnl = position.unrealized_pl is inserted
CapClose ==
    /\ cap.book # << >>
    /\ cap' = [cap EXCEPT
                 !.outcomes = Append(@, [realized_pnl |-> cap.book[1].unrealized_pl]),
                 !.book = << >>]
    /\ UNCHANGED <<rk, rkOut, cy, ex, fn>>

\* get_working_capital; dbOk and posOk tell whether the database and the
\* brokerage answer
CapGetWorkingCapital ==
    \E dbOk, posOk \in BOOLEAN :
      LET cfg == ACCOUNT_CONFIGS[cap.account]
          r == GetRealizedPnl(cap.cache, cap.cacheTime, cap.now,
                              DbGetTradeOutcomes(cap.outcomes, 10000, dbOk))
          tableSum == SumSeq([i \in 1..Len(cap.outcomes) |->
                                cap.outcomes[i].realized_pnl])
          live == SumSeq([i \in 1..Len(cap.book) |-> cap.book[i].unrealized_pl])
      IN  /\ cap' = [cap EXCEPT
                       !.cache = r.cache,
                       !.cacheTime = r.time,
                       !.refreshSum = IF r.fetched THEN tableSum ELSE @,
                       !.refreshOk = IF r.fetched THEN dbOk ELSE @,
                       !.out = [called |-> TRUE,
                                value |-> WorkingCapital(cfg, r.pnl, cap.book, posOk),
                                realized |-> r.pnl, at |-> cap.now,
                                dbOk |-> dbOk \/ ~r.fetched, posOk |-> posOk,
                                fetched |-> r.fetched,
                                tableSum |-> tableSum, liveUnrealized |-> live]]
          /\ UNCHANGED <<rk, rkOut, cy, ex, fn>>

CapNext == CapTick \/ CapOpen \/ CapPriceMove \/ CapClose \/ CapGetWorkingCapital

SpecCapital == CapInit /\ [][CapNext]_vars

(***************************************************************************)
(* Risk check on its own: one can_open_position call on every input of a   *)
(* bounded set.                                                            *)
(***************************************************************************)
\* n positions of the same market value in tickers other than AAPL
EvenBook(n, mv) == [i \in 1..n |-> Position(Tickers[i + 1], mv, 0)]

RiskBooks ==
    { << >>,
      <<Position("MSFT", Dollars(5500), 0)>>,
      <<Position("MSFT", Dollars(8000), 0)>>,
      <<Position("MSFT", Dollars(8000), Dollars(300))>>,
      <<Position("AAPL", Dollars(700), 0)>>,
      <<Position("MSFT", 0 - Dollars(6000), 0 - Dollars(3000)),
        Position("NVDA", 0 - Dollars(6000), 0 - Dollars(3000))>>,
      <<Position("MSFT", Dollars(12000), 0)>> }
    \cup { EvenBook(n, Dollars(100)) : n \in {9, 10, 11, 12} }
    \cup { EvenBook(12, Dollars(700)) }

RiskRealized == { 0, 0 - Dollars(300), 0 - Dollars(11000) }
RiskNotionals ==
    { Dollars(100), Dollars(500), Dollars(600), Dollars(900), Dollars(1200),
      Dollars(1500) }
RiskSymbols == { "AAPL", "CSCO" }
RiskOks == { AllOk, <<FALSE, FALSE, FALSE, FALSE>>, <<TRUE, FALSE, TRUE, TRUE>>,
             <<FALSE, TRUE, TRUE, TRUE>>, <<TRUE, TRUE, FALSE, FALSE>> }

RiskInputs ==
    [account : AccountIds, realized : RiskRealized, book : RiskBooks,
     oks : RiskOks, symbol : RiskSymbols, notional : RiskNotionals]

RiskInit ==
    /\ rk \in RiskInputs
    /\ rkOut = NoResult
    /\ cap = CapIdle
    /\ cy = CyIdle
    /\ ex = ExIdle
    /\ fn = FnIdle

RiskCall ==
    /\ rkOut = NoResult
    /\ rkOut' = CanOpenPosition(ACCOUNT_CONFIGS[rk.account], rk.realized, rk.book,
                                rk.oks, rk.symbol, rk.notional)
    /\ UNCHANGED <<rk, cap, cy, ex, fn>>

RiskNext == RiskCall

SpecRisk == RiskInit /\ [][RiskNext]_vars

RiskDone == rkOut # NoResult
RiskCfg == ACCOUNT_CONFIGS[rk.account]

(***************************************************************************)
(* One trading day of one account: the brokerage (positions, orders that   *)
(* were submitted and do not show as positions yet, prices), the database  *)
(* (trade outcomes, today's trades), the executor's RiskManager (cache of  *)
(* the realized P&L) and the candidates its current cycle still has to     *)
(* process.  AAPL is traded long, TSLA short.                              *)
(***************************************************************************)
MaxPending == 2           \* orders submitted and not yet shown as positions
MaxCloses == 2            \* positions closed in the day
MaxCandidates == 2        \* candidates of one cycle
MaxTrades == 3            \* orders submitted in the day

CyAccounts == {"quiver_strat", "day_trader", "signal_echo"}
CySymbolSet == {CySymbols[i] : i \in 1..Len(CySymbols)}
CySide == [AAPL |-> "buy", TSLA |-> "sell"]
\* unrealized P&L a position can show
CyPnlLevels(side) ==
    IF side = "buy" THEN {0, Dollars(300), 0 - Dollars(400)}
    ELSE {0, 0 - Dollars(400), 0 - Dollars(5000)}

\* what the brokerage reports for a position of the day
CyPosition(s) ==
    LET p == cy.pos[s]
    IN  Position(s, IF p.side = "buy" THEN p.basis + p.pnl ELSE p.pnl - p.basis,
                 p.pnl)

\* trading.get_all_positions()
CyBook ==
    LET held == SelectSeq(CySymbols, LAMBDA s : cy.pos[s] # NoPos)
    IN  [i \in 1..Len(held) |-> CyPosition(held[i])]

\* the candidate lists of a cycle: the day trader can meet a symbol twice in
\* one cycle (one setup per strategy)
CyQueues(account) ==
    { q \in UNION { [1..n -> CySymbolSet] : n \in 1..MaxCandidates } :
        account = "day_trader" \/ \A i, j \in DOMAIN q : q[i] = q[j] => i = j }

CyInit ==
    /\ cy \in { [CyIdle EXCEPT !.account = a] : a \in CyAccounts }
    /\ rk = RiskIdle
    /\ rkOut = NoResult
    /\ cap = CapIdle
    /\ ex = ExIdle
    /\ fn = FnIdle

\* a cycle starts: run_intraday_cycle, SignalEchoExecutor.open_positions or
\* Executor.execute_signals is handed its candidates
CyStartCycle ==
    /\ cy.queue = << >>
    /\ \E q \in CyQueues(cy.account) :
          cy' = [cy EXCEPT !.queue = q, !.breaker = FALSE, !.last = NoDecision]
    /\ UNCHANGED <<rk, rkOut, cap, ex, fn>>

\* The part the three executors share: position size, can_open_position,
\* the order.  r is what _get_realized_pnl returned to the step's first
\* get_working_capital call (later calls of the step hit the cache).
\* Candidates come with confidence 100; sizePct is the percentage of the
\* size the executor orders.
CyOpen(symbol, r, ok, submitOk, sizePct) ==
    LET cfg == ACCOUNT_CONFIGS[cy.account]
        wc == WorkingCapital(cfg, r.pnl, CyBook, ok)
        size == (CalculatePositionSize(cfg, wc, 100, NoVal) * sizePct) \div 100
        d == CanOpenPosition(cfg, r.pnl, CyBook, <<ok, ok, ok, ok>>, symbol, size)
        tableSum == SumSeq([i \in 1..Len(cy.outcomes) |->
                              cy.outcomes[i].realized_pnl])
        last == [made |-> TRUE, allowed |-> d.allowed, reason |-> d.reason,
                 wc |-> d.wc, invested |-> d.invested, notional |-> size,
                 trueWc |-> WorkingCapital(cfg, tableSum, CyBook, TRUE),
                 trueInvested |-> GetInvestedValue(CyBook, TRUE)]
        tooSmall == size < 100 /\ cy.account # "day_trader"
        submitted == d.allowed /\ submitOk /\ ~tooSmall
    IN  [cy EXCEPT
           !.queue = Tail(@),
           !.cache = r.cache,
           !.clean = @ /\ ok,
           !.last = IF tooSmall THEN NoDecision ELSE last,
           !.breaker = @ \/ d.reason = "circuit_breaker",
           !.pending = IF submitted
                       THEN Append(@, [symbol |-> symbol, side |-> CySide[symbol],
                                       notional |-> size])
                       ELSE @,
           !.trades = IF submitted THEN @ + 1 ELSE @,
           !.openedAfterBreaker = @ \/ (submitted /\ cy.breaker)]

\* the daily loss check both intraday executors make first
CyDaily(r, ok) ==
    LET cfg == ACCOUNT_CONFIGS[cy.account]
    IN  CheckDailyLossLimit(cfg, WorkingCapital(cfg, r.pnl, CyBook, ok),
                            DbGetTradeOutcomes(cy.outcomes, 100, TRUE),
                            GetPositions(CyBook, ok))

CyBlockedByDailyLoss(r, ok) ==
    [cy EXCEPT !.queue = << >>, !.cache = r.cache, !.clean = @ /\ ok,
               !.lossHit = TRUE, !.last = NoDecision]

CyAfterDailyCheck(next) ==
    [next EXCEPT !.allowedAfterLossHit = @ \/ cy.lossHit]

\* DayTraderExecutor.execute_setup for the next setup of run_intraday_cycle
CyExecuteSetup ==
    /\ cy.account = "day_trader"
    /\ cy.queue # << >>
    /\ Len(cy.pending) < MaxPending
    /\ cy.trades < MaxTrades
    /\ \E ok, expired, submitOk, marketOpen \in BOOLEAN :
         LET r == GetRealizedPnl(cy.cache, 0,
                                 IF expired THEN REALIZED_PNL_CACHE_TTL ELSE 0,
                                 DbGetTradeOutcomes(cy.outcomes, 10000, TRUE))
         IN  cy' = IF ~marketOpen
                   THEN [cy EXCEPT !.queue = Tail(@), !.last = NoDecision]
                   ELSE IF ~CyDaily(r, ok).allowed THEN CyBlockedByDailyLoss(r, ok)
                   ELSE IF ~CheckMaxTradesPerDay(ACCOUNT_CONFIGS[cy.account],
                                                 cy.trades).allowed
                   THEN CyAfterDailyCheck([cy EXCEPT !.queue = << >>,
                                                     !.cache = r.cache,
                                                     !.clean = @ /\ ok,
                                                     !.last = NoDecision])
                   ELSE CyAfterDailyCheck(CyOpen(Head(cy.queue), r, ok, submitOk, 100))
    /\ UNCHANGED <<rk, rkOut, cap, ex, fn>>

\* one iteration of the loop of SignalEchoExecutor.open_positions
CyOpenPositionsStep ==
    /\ cy.account = "signal_echo"
    /\ cy.queue # << >>
    /\ Len(cy.pending) < MaxPending
    /\ cy.trades < MaxTrades
    /\ \E ok, expired, submitOk \in BOOLEAN :
         LET r == GetRealizedPnl(cy.cache, 0,
                                 IF expired THEN REALIZED_PNL_CACHE_TTL ELSE 0,
                                 DbGetTradeOutcomes(cy.outcomes, 10000, TRUE))
             cfg == ACCOUNT_CONFIGS[cy.account]
         IN  cy' = IF ~CyDaily(r, ok).allowed THEN CyBlockedByDailyLoss(r, ok)
                   ELSE IF ~CheckMaxTradesPerDay(cfg, cy.trades).allowed
                   THEN CyAfterDailyCheck([cy EXCEPT !.queue = << >>,
                                                     !.cache = r.cache,
                                                     !.clean = @ /\ ok,
                                                     !.last = NoDecision])
                   ELSE CyAfterDailyCheck(CyOpen(Head(cy.queue), r, ok, submitOk, 100))
    /\ UNCHANGED <<rk, rkOut, cap, ex, fn>>

\* Executor._execute_single for the next signal of execute_signals (the
\* market is open), with Claude's position_size_pct = 1.0
CyExecuteSingle ==
    /\ cy.account = "quiver_strat"
    /\ cy.queue # << >>
    /\ Len(cy.pending) < MaxPending
    /\ cy.trades < MaxTrades
    /\ \E ok, expired, submitOk \in BOOLEAN :
         LET r == GetRealizedPnl(cy.cache, 0,
                                 IF expired THEN REALIZED_PNL_CACHE_TTL ELSE 0,
                                 DbGetTradeOutcomes(cy.outcomes, 10000, TRUE))
         IN  cy' = CyOpen(Head(cy.queue), r, ok, submitOk, 100)
    /\ UNCHANGED <<rk, rkOut, cap, ex, fn>>

\* the brokerage fills the oldest order: it shows as a position (more of the
\* position when the symbol is held already)
CyFill ==
    /\ cy.pending # << >>
    /\ LET o == Head(cy.pending)
           p == cy.pos[o.symbol]
       IN  cy' = [cy EXCEPT
                    !.pending = Tail(@),
                    !.last = NoDecision,
                    !.pos[o.symbol] =
                        [side |-> o.side, basis |-> p.basis + o.notional,
                         pnl |-> p.pnl, lots |-> p.lots + 1]]
    /\ UNCHANGED <<rk, rkOut, cap, ex, fn>>

\* the market moves a position
CyPriceMove ==
    /\ \E s \in CySymbolSet :
         /\ cy.pos[s] # NoPos
         /\ \E u \in CyPnlLevels(cy.pos[s].side) :
              /\ u # cy.pos[s].pnl
              /\ cy' = [cy EXCEPT !.pos[s].pnl = u, !.last = NoDecision]
    /\ UNCHANGED <<rk, rkOut, cap, ex, fn>>

\* _close_and_record: an exit closes the position at the brokerage and
\* inserts its trade outcome
CyClose ==
    /\ Len(cy.outcomes) < MaxCloses
    /\ \E s \in CySymbolSet :
         /\ cy.pos[s] # NoPos
         /\ cy' = [cy EXCEPT
                     !.outcomes = Append(@, [realized_pnl |-> cy.pos[s].pnl]),
                     !.pos[s] = NoPos,
                     !.last = NoDecision]
    /\ UNCHANGED <<rk, rkOut, cap, ex, fn>>

CyNext ==
    \/ CyStartCycle
    \/ CyExecuteSetup
    \/ CyOpenPositionsStep
    \/ CyExecuteSingle
    \/ CyFill
    \/ CyPriceMove
    \/ CyClose

SpecCycle == CyInit /\ [][CyNext]_vars

(***************************************************************************)
(* Exits of one account over a day: the brokerage (positions, with the     *)
(* closes that were requested and do not show yet), the trades table, the  *)
(* outcomes appended (counted on the trade and on the position they name), *)
(* and one executor instance with its high-water marks.                    *)
(*   pos[s].trade    the row insert_trade wrote when the position was      *)
(*                   opened (0: the insert failed)                         *)
(*   pos[s].seenMax  the highest P&L % a monitoring cycle evaluated since  *)
(*                   the entry; pos[s].floor the stop the latest           *)
(*                   evaluation by this executor instance applied          *)
(*   act[s]          what the handler that just ran did with the position  *)
(*                   ("held": evaluated and kept, "skipped": no trade)     *)
(***************************************************************************)
MaxOpens == 2             \* rows of the trades table
MaxRecords == 2           \* outcomes appended for one position

ExAccounts == {"quiver_strat", "day_trader", "signal_echo"}
ExSymbolSet == {ExSymbols[i] : i \in 1..Len(ExSymbols)}
\* P&L % a position can show
ExLevels == {0 - 200, 0, 120, 200, 290}
ExStrategies(account) ==
    IF account = "day_trader" THEN {"momentum", "vwap_bounce"}
    ELSE IF account = "signal_echo" THEN {"signal_echo"}
    ELSE {"quiver_composite"}
\* stop_loss_pct and target_return_pct of a new trade row: Claude's for the
\* quiver account (or none), no such keys in the other executors' rows
ExThresholds(account) ==
    IF account = "quiver_strat" THEN {<<NoVal, NoVal>>, <<150, 300>>}
    ELSE {<<NoVal, NoVal>>}
\* the stop_pct row of adaptive_config: written for momentum or absent
ExAdaptive(account) == IF account = "day_trader" THEN {NoVal, 115} ELSE {NoVal}
AdaptiveFor(strategy) == IF strategy = "momentum" THEN ex.adaptive ELSE NoVal

ExInit ==
    /\ ex \in { [ExIdle EXCEPT !.account = a, !.adaptive = d] :
                  a \in ExAccounts, d \in {NoVal, 115} }
    /\ ex.adaptive \in ExAdaptive(ex.account)
    /\ rk = RiskIdle
    /\ rkOut = NoResult
    /\ cap = CapIdle
    /\ cy = CyIdle
    /\ fn = FnIdle

NoActs == [s \in ExSymbolSet |-> NoAct]

\* db.get_open_trades: the rows in an open status, as indices of the table
OpenTradesFor(trades, s) ==
    {i \in DOMAIN trades : trades[i].symbol = s /\ trades[i].status = "open"}
SetMin(S) == CHOOSE x \in S : \A y \in S : x <= y
SetMax(S) == CHOOSE x \in S : \A y \in S : x >= y
\* next((t for t in open_trades if t["symbol"] == symbol), None): the query
\* of get_open_trades states no order, the database answers the rows oldest
\* first or newest first
FirstOpenTrade(trades, s, newestFirst) ==
    IF OpenTradesFor(trades, s) = {} THEN 0
    ELSE IF newestFirst THEN SetMax(OpenTradesFor(trades, s))
    ELSE SetMin(OpenTradesFor(trades, s))
\* trades_by_symbol.get(symbol): the most recent per symbol
LatestOpenTrade(trades, s) ==
    IF OpenTradesFor(trades, s) = {} THEN 0 ELSE SetMax(OpenTradesFor(trades, s))
TradeFor(account, trades, s, newestFirst) ==
    IF account = "signal_echo" THEN LatestOpenTrade(trades, s)
    ELSE FirstOpenTrade(trades, s, newestFirst)

\* an executor opens a position: the order is submitted and fills, then
\* insert_trade writes the trade row (dbOk) or fails (None)
ExOpen ==
    /\ Len(ex.trades) < MaxOpens
    /\ \E s \in ExSymbolSet, strategy \in ExStrategies(ex.account),
          th \in ExThresholds(ex.account), dbOk \in BOOLEAN :
         /\ ~ex.pos[s].held
         /\ ex' = [ex EXCEPT
                     !.act = NoActs, !.last = NoHandler,
                     !.pos[s] = [NoHold EXCEPT
                                   !.held = TRUE,
                                   !.trade = IF dbOk THEN Len(ex.trades) + 1
                                             ELSE 0],
                     !.trades = IF dbOk
                                THEN Append(@, [symbol |-> s,
                                                strategy |-> strategy,
                                                stop_loss_pct |-> th[1],
                                                target_return_pct |-> th[2],
                                                status |-> "open",
                                                outcomes |-> 0])
                                ELSE @]
    /\ UNCHANGED <<rk, rkOut, cap, cy, fn>>

\* the market moves a position
ExPriceMove ==
    /\ \E s \in ExSymbolSet, level \in ExLevels :
         /\ ex.pos[s].held /\ ~ex.pos[s].closing
         /\ level # ex.pos[s].pnl
         /\ ex' = [ex EXCEPT !.pos[s].pnl = level, !.act = NoActs, !.last = NoHandler]
    /\ UNCHANGED <<rk, rkOut, cap, cy, fn>>

\* a position is closed outside the executor (by hand, by the brokerage)
ExExternalClose ==
    /\ \E s \in ExSymbolSet :
         /\ ex.pos[s].held /\ ~ex.pos[s].closing
         /\ ex' = [ex EXCEPT !.pos[s] = NoHold, !.act = NoActs, !.last = NoHandler]
    /\ UNCHANGED <<rk, rkOut, cap, cy, fn>>

\* a close the executor requested fills: the brokerage stops reporting the
\* position
ExCloseFill ==
    /\ \E s \in ExSymbolSet :
         /\ ex.pos[s].held /\ ex.pos[s].closing
         /\ ex' = [ex EXCEPT !.pos[s] = NoHold, !.act = NoActs, !.last = NoHandler]
    /\ UNCHANGED <<rk, rkOut, cap, cy, fn>>

\* the executor process is started again: a new instance, an empty map
ExRestart ==
    /\ \E s \in ExSymbolSet : ex.hwm[s] # NoMark \/ ex.pos[s].floor # NoMark
    /\ ex' = [ex EXCEPT
                !.hwm = [s \in ExSymbolSet |-> NoMark],
                !.pos = [s \in ExSymbolSet |->
                           [@[s] EXCEPT !.floor = NoMark,
                                        !.lost = @ \/ ex.hwm[s] # NoMark]],
                !.act = NoActs, !.last = NoHandler]
    /\ UNCHANGED <<rk, rkOut, cap, cy, fn>>

\* _close_and_record (the three executors' are alike): the close is
\* requested (closeOk: the brokerage accepts it), the trade row, if there is
\* one, is set to closed, and an outcome is inserted whatever close_position
\* answered.  t is the trade (0: None), info what is noted of the close.
CloseAndRecord(st, s, t, closeOk, info) ==
    [st EXCEPT
       !.pos[s].closing = @ \/ closeOk,
       !.pos[s].outcomes = @ + 1,
       !.trades = IF t = 0 THEN @
                  ELSE [@ EXCEPT ![t].status = "closed",
                                 ![t].outcomes = @ + 1],
       !.act[s] = [info EXCEPT !.requested = TRUE]]

\* the evaluation the account's executor makes of position s with trade t
EvaluateFor(st, trades, s, t, expired) ==
    IF st.account = "day_trader"
    THEN DayTraderEvaluate(st.pos[s].pnl, st.hwm[s], trades[t].strategy,
                           AdaptiveFor(trades[t].strategy))
    ELSE IF st.account = "signal_echo"
    THEN SignalEchoEvaluate(st.pos[s].pnl, st.hwm[s])
    ELSE QuiverEvaluate(st.pos[s].pnl, trades[t].stop_loss_pct,
                        trades[t].target_return_pct, expired)

\* the body of the loop "for pos in positions" of manage_positions and of
\* check_exit_conditions for the position in s, if the brokerage reported
\* one; trades is the answer of get_open_trades at the start of the handler
ManageOne(st, trades, s, closeOk, expired, newestFirst) ==
    LET p == st.pos[s]
        t == TradeFor(st.account, trades, s, newestFirst)
        e == EvaluateFor(st, trades, s, t, expired)
        seen == IF p.pnl > p.seenMax THEN p.pnl ELSE p.seenMax
        info == [reason |-> IF e.reason = "none" THEN "held" ELSE e.reason,
                 pnl |-> p.pnl, stop |-> e.stop, target |-> e.target,
                 trail |-> e.trail, high |-> e.high, seen |-> seen,
                 strategy |-> trades[t].strategy, lost |-> p.lost,
                 requested |-> FALSE]
        evaluated == [st EXCEPT !.hwm[s] = e.mark,
                                !.pos[s].seenMax = seen,
                                !.pos[s].floor = e.floor,
                                !.pos[s].lost = FALSE,
                                !.act[s] = info]
    IN  IF ~p.held THEN st
        ELSE IF t = 0
        THEN [st EXCEPT !.act[s] = [NoAct EXCEPT !.reason = "skipped",
                                                 !.pnl = p.pnl]]
        ELSE IF e.reason = "none" THEN evaluated
        ELSE CloseAndRecord(evaluated, s, t, closeOk, info)

\* alpaca.get_positions: the held positions, [] when the request fails
Reported(ok) == IF ok THEN {s \in ExSymbolSet : ex.pos[s].held} ELSE {}

\* a monitoring cycle: get_positions (ok: the request is answered, else []),
\* get_open_trades, the loop over the positions, and the clean-up of the
\* marks of the symbols get_positions did not report
RECURSIVE ManageFrom(_, _, _, _, _, _)
ManageFrom(st, trades, i, closeOk, expired, newestFirst) ==
    IF i > Len(ExSymbols) THEN st
    ELSE ManageFrom(ManageOne(st, trades, ExSymbols[i], closeOk, expired,
                              newestFirst),
                    trades, i + 1, closeOk, expired, newestFirst)

Monitor(ok, closeOk, expired, newestFirst) ==
    LET st0 == [ex EXCEPT !.act = NoActs,
                          !.last = [op |-> "monitor",
                                    reported |-> Reported(ok)]]
        done == IF ok
                THEN ManageFrom(st0, ex.trades, 1, closeOk, expired, newestFirst)
                ELSE st0
    IN  [done EXCEPT
           !.hwm = [s \in ExSymbolSet |->
                      IF ok /\ ex.pos[s].held THEN @[s] ELSE NoMark]]

\* DayTraderExecutor.manage_positions
DayTraderManagePositions ==
    /\ ex.account = "day_trader"
    /\ \E ok, closeOk, newestFirst \in BOOLEAN :
         ex' = Monitor(ok, closeOk, FALSE, newestFirst)
    /\ UNCHANGED <<rk, rkOut, cap, cy, fn>>

\* SignalEchoExecutor.manage_positions
SignalEchoManagePositions ==
    /\ ex.account = "signal_echo"
    /\ \E ok, closeOk \in BOOLEAN : ex' = Monitor(ok, closeOk, FALSE, FALSE)
    /\ UNCHANGED <<rk, rkOut, cap, cy, fn>>

\* Executor.check_exit_conditions (no marks: the clean-up changes nothing)
CheckExitConditions ==
    /\ ex.account = "quiver_strat"
    /\ \E ok, closeOk, expired, newestFirst \in BOOLEAN :
         ex' = Monitor(ok, closeOk, expired, newestFirst)
    /\ UNCHANGED <<rk, rkOut, cap, cy, fn>>

SweepOneTradedOnly(st, s, closeOk, newestFirst) ==
    IF ~st.pos[s].held \/ TradeFor(st.account, st.trades, s, newestFirst) = 0
    THEN st
    ELSE CloseAndRecord(st, s,
                        TradeFor(st.account, st.trades, s, newestFirst), closeOk,
                        [NoAct EXCEPT !.reason = "eod_close",
                                      !.pnl = st.pos[s].pnl])

\* the body of the loop of force_close_all for the position in s
SweepOne(st, s, closeOk, newestFirst) ==
    IF ~st.pos[s].held THEN st
    ELSE CloseAndRecord(st, s,
                        TradeFor(st.account, st.trades, s, newestFirst), closeOk,
                        [NoAct EXCEPT !.reason = "eod_close",
                                      !.pnl = st.pos[s].pnl])

\* force_close_all: the map is cleared, then every position get_positions
\* reports is closed and recorded
RECURSIVE SweepFrom(_, _, _, _)
SweepFrom(st, i, closeOk, newestFirst) ==
    IF i > Len(ExSymbols) THEN st
    ELSE SweepFrom(SweepOne(st, ExSymbols[i], closeOk, newestFirst), i + 1,
                   closeOk, newestFirst)

ForceCloseAll(ok, closeOk, newestFirst) ==
    LET st0 == [ex EXCEPT !.act = NoActs,
                          !.last = [op |-> "sweep", reported |-> Reported(ok)],
                          !.hwm = [s \in ExSymbolSet |-> NoMark]]
    IN  IF ok THEN SweepFrom(st0, 1, closeOk, newestFirst) ELSE st0

\* DayTraderExecutor.force_close_all (run_loop phase 4, run_eod)
DayTraderForceCloseAll ==
    /\ ex.account = "day_trader"
    /\ \A s \in ExSymbolSet : ex.pos[s].outcomes < MaxRecords
    /\ \E ok, closeOk, newestFirst \in BOOLEAN :
         ex' = ForceCloseAll(ok, closeOk, newestFirst)
    /\ UNCHANGED <<rk, rkOut, cap, cy, fn>>

\* SignalEchoExecutor.force_close_all
SignalEchoForceCloseAll ==
    /\ ex.account = "signal_echo"
    /\ \A s \in ExSymbolSet : ex.pos[s].outcomes < MaxRecords
    /\ \E ok, closeOk \in BOOLEAN : ex' = ForceCloseAll(ok, closeOk, FALSE)
    /\ UNCHANGED <<rk, rkOut, cap, cy, fn>>

ExNext ==
    \/ ExOpen
    \/ ExPriceMove
    \/ ExExternalClose
    \/ ExCloseFill
    \/ ExRestart
    \/ DayTraderManagePositions
    \/ SignalEchoManagePositions
    \/ CheckExitConditions
    \/ DayTraderForceCloseAll
    \/ SignalEchoForceCloseAll

SpecExit == ExInit /\ [][ExNext]_vars

\* the monitoring cycles are scheduled for as long as the process runs (the
\* while loop of run_loop, the cron entries of the other two accounts)
SpecExitFair ==
    /\ ExInit
    /\ [][ExNext]_vars
    /\ WF_vars(DayTraderManagePositions)
    /\ WF_vars(SignalEchoManagePositions)
    /\ WF_vars(CheckExitConditions)

(***************************************************************************)
(* The five conditions of can_open_position, on what the call read         *)
(***************************************************************************)
BreakerTripped == rkOut.invested * 100 > rkOut.wc * 105
OverInvested ==
    (rkOut.invested + rk.notional) * 100 > rkOut.wc * MaxInvestedPct(RiskCfg)
OverPosition == rk.notional * 100 > rkOut.wc * MaxPositionPct(RiskCfg)
AtMaxPositions == rkOut.count >= MaxPositions(RiskCfg)
AlreadyHolding == rkOut.existing

\* C3: can_open_position returns the rejection reason of the first failing
\* check in the order circuit breaker, max invested, max per position, max
\* position count, duplicate symbol; invested 5500 + notional 600 against a
\* working capital of 10000 at max_invested_pct 0.6 is a "max invested"
\* rejection.
C3_FirstFailingCheck ==
    RiskDone =>
        /\ rkOut.reason = "circuit_breaker" <=> BreakerTripped
        /\ rkOut.reason = "max_invested" <=> ~BreakerTripped /\ OverInvested
        /\ rkOut.reason = "max_position"
              <=> ~BreakerTripped /\ ~OverInvested /\ OverPosition
        /\ rkOut.reason = "max_positions"
              <=> ~BreakerTripped /\ ~OverInvested /\ ~OverPosition
                    /\ AtMaxPositions
        /\ rkOut.reason = "already_holding"
              <=> ~BreakerTripped /\ ~OverInvested /\ ~OverPosition
                    /\ ~AtMaxPositions /\ AlreadyHolding
        /\ (/\ rkOut.invested = Dollars(5500) /\ rk.notional = Dollars(600)
            /\ rkOut.wc = Dollars(10000) /\ MaxInvestedPct(RiskCfg) = 60)
              => rkOut.reason = "max_invested"

\* C3 witness: a call in which the invested, per-position and count checks
\* would all fail, answered with the reason of the invested check
C3_Witness ==
    /\ RiskDone /\ ~BreakerTripped
    /\ OverInvested /\ OverPosition /\ AtMaxPositions
    /\ rkOut.reason = "max_invested"

\* C4: can_open_position returns (TRUE, "OK") exactly when none of the five
\* conditions holds (a notional exactly on a ceiling passes, a count equal to
\* the maximum does not).
C4_ApprovedIffNoCheckFails ==
    RiskDone =>
        /\ rkOut.allowed <=> rkOut.reason = "OK"
        /\ rkOut.allowed
              <=> ~(BreakerTripped \/ OverInvested \/ OverPosition
                      \/ AtMaxPositions \/ AlreadyHolding)
        /\ rkOut.count = MaxPositions(RiskCfg) => ~rkOut.allowed

\* C4 witness: an approval whose notional lands exactly on the per-position
\* ceiling
C4_Witness ==
    /\ RiskDone /\ rkOut.allowed
    /\ rk.notional * 100 = rkOut.wc * MaxPositionPct(RiskCfg)

\* C6 (as claimed): when a brokerage request of can_open_position fails, the
\* call does not approve an open that the brokerage's real positions forbid.
C6_FailedQueryNeverApproves ==
    (/\ RiskDone /\ rk.oks # AllOk
     /\ ~CanOpenPosition(RiskCfg, rk.realized, rk.book, AllOk, rk.symbol,
                         rk.notional).allowed)
        => ~rkOut.allowed

\* C7 (as claimed): every value get_working_capital returns is the starting
\* capital plus the sum of the realized P&L of all outcomes recorded so far
\* plus the live unrealized P&L.  Stated for the calls in which every request
\* was answered and whose cached value came from an answered query.
C7_WorkingCapitalIsExact ==
    (cap.out.called /\ cap.out.posOk /\ cap.refreshOk)
        => cap.out.value = ACCOUNT_CONFIGS[cap.account].starting_capital
                             + cap.out.tableSum + cap.out.liveUnrealized

\* C7 (amended): the realized part of a returned working capital is the sum
\* of the outcomes as recorded at the latest refresh of the cache, which is
\* less than REALIZED_PNL_CACHE_TTL seconds old (0 when that query failed);
\* the unrealized part is the live sum, or 0 when the positions request
\* failed.  It is the exact sum when the call itself refreshed the cache.
C7_WorkingCapitalUpToCache ==
    cap.out.called =>
        /\ cap.out.at - cap.cacheTime < REALIZED_PNL_CACHE_TTL
        /\ cap.out.realized = (IF cap.refreshOk THEN cap.refreshSum ELSE 0)
        /\ cap.out.value = ACCOUNT_CONFIGS[cap.account].starting_capital
                             + cap.out.realized
                             + (IF cap.out.posOk THEN cap.out.liveUnrealized ELSE 0)
        /\ (cap.out.fetched /\ cap.out.dbOk) => cap.out.realized = cap.out.tableSum

\* C7 witness: a call answered from the cache after a close added an outcome
\* the cache does not hold
C7_Witness ==
    /\ cap.out.called /\ ~cap.out.fetched /\ cap.out.posOk /\ cap.refreshOk
    /\ cap.out.tableSum # cap.out.realized

\* C8: when the unrealized P&L cannot be fetched, get_working_capital returns
\* the starting capital plus the realized P&L (the value now in the cache),
\* whatever the cache held before the call.
C8_FailsSoft ==
    (cap.out.called /\ ~cap.out.posOk)
        => /\ cap.cache.set
           /\ cap.out.value = ACCOUNT_CONFIGS[cap.account].starting_capital
                                + cap.cache.pnl

\* C8 witness: the positions request fails while the account has unrealized
\* and realized P&L, and the cache had expired
C8_Witness ==
    /\ cap.out.called /\ ~cap.out.posOk
    /\ cap.out.liveUnrealized # 0 /\ cap.out.realized # 0
    /\ cap.out.fetched /\ cap.out.at > 0

(***************************************************************************)
(* Claims about a trading day (SpecCycle).  cy.last is the decision        *)
(* can_open_position has just returned: wc and invested are the values it  *)
(* read, trueWc and trueInvested the values of the account at that moment  *)
(* (every outcome of the table, every position of the brokerage).          *)
(***************************************************************************)
CyPendingFor(s) ==
    Cardinality({i \in DOMAIN cy.pending : cy.pending[i].symbol = s})

\* C1, as stated: at the moment every can_open_position decision returns,
\* the account's invested value is at most 1.05 x its working capital
\* (days on which no brokerage request failed).
C1_InvestedWithinTolerance ==
    (cy.last.made /\ cy.clean) =>
        cy.last.trueInvested * 100 <= cy.last.trueWc * 105

\* C1, amended: every can_open_position decision either read an invested
\* value of at most 1.05 x the working capital it read, or is a rejection by
\* the circuit breaker; an approval moreover keeps invested + notional within
\* working capital x max_invested_pct.
C1_BreakerGuardsTolerance ==
    cy.last.made =>
        /\ \/ cy.last.invested * 100 <= cy.last.wc * 105
           \/ (~cy.last.allowed /\ cy.last.reason = "circuit_breaker")
        /\ cy.last.allowed =>
             (cy.last.invested + cy.last.notional) * 100
                <= cy.last.wc * MaxInvestedPct(ACCOUNT_CONFIGS[cy.account])

\* C1 witness: after opens and a price change, a decision that read more than
\* 1.05 x working capital invested returned the circuit breaker rejection.
C1_Witness ==
    /\ cy.last.made
    /\ cy.trades > 0
    /\ cy.last.invested * 100 > cy.last.wc * 105
    /\ cy.last.reason = "circuit_breaker"

\* C2, as stated: once can_open_position has rejected with the circuit
\* breaker in a cycle, no opening order is submitted in the rest of that
\* cycle (days on which no brokerage request failed).
C2_BreakerHaltsCycle ==
    cy.clean => ~cy.openedAfterBreaker

\* C5, as stated: an account never has more than one position or submitted
\* opening order in one symbol (days on which no brokerage request failed).
C5_OnePositionPerSymbol ==
    cy.clean =>
        \A s \in CySymbolSet : CyPendingFor(s) + cy.pos[s].lots <= 1

\* C9, as stated: once check_daily_loss_limit has rejected, every later call
\* of the same trading day rejects (days on which no brokerage request
\* failed).
C9_DailyLossLimitLatches ==
    cy.clean => ~cy.allowedAfterLossHit

\* ---------------------------------------------------------------------
\* Claims about the exit policies (SpecExit)
\* ---------------------------------------------------------------------

\* the reasons a monitoring cycle records a close with
MonitorReasons == {"stop_loss", "trailing_stop", "target_hit",
                   "time_horizon_expired"}
ClosedByMonitor(s) == ex.act[s].reason \in MonitorReasons

\* C11: when the day trader closes a position in a monitoring cycle in which
\* its P&L % is at or below -stop_pct, the recorded reason is stop_loss,
\* also when the trailing stop is active.
C11_StopLossPrecedence ==
    ex.account = "day_trader" =>
        \A s \in ExSymbolSet :
            (ClosedByMonitor(s) /\ ex.act[s].pnl <= 0 - ex.act[s].stop)
                => ex.act[s].reason = "stop_loss"

\* C12: when the day trader closes a position in a monitoring cycle in which
\* its P&L % is at or above target_pct and at or below the active trailing
\* floor, the recorded reason is target_hit, never trailing_stop.
C12_TargetPrecedence ==
    ex.account = "day_trader" =>
        \A s \in ExSymbolSet :
            (/\ ClosedByMonitor(s)
             /\ ex.act[s].trail # NoMark
             /\ ex.act[s].pnl >= ex.act[s].target
             /\ ex.act[s].pnl <= ex.act[s].trail)
                => ex.act[s].reason = "target_hit"

\* a monitoring cycle evaluated the position in s (it had a trade)
Evaluated(s) == ex.act[s].reason = "held" \/ ClosedByMonitor(s)
Max(a, b) == IF a >= b THEN a ELSE b

\* C13: in every evaluation of the day trader the effective floor is
\* max(-stop_pct, high-water mark - trail_offset_pct) once the high-water mark
\* has reached trail_activate_pct and -stop_pct before; it is never below
\* -stop_pct.
C13_EffectiveFloor ==
    ex.account = "day_trader" =>
        \A s \in ExSymbolSet :
            Evaluated(s) =>
                LET config == StrategyConfig(ex.act[s].strategy)
                    fixed == 0 - ex.act[s].stop
                    floor == ex.pos[s].floor
                IN  /\ floor >= fixed
                    /\ floor = IF ex.act[s].high >= config.trail_activate_pct
                               THEN Max(fixed,
                                        ex.act[s].high - config.trail_offset_pct)
                               ELSE fixed

\* C13 (witness): an evaluation left a position open with the trailing floor
\* in force, above the fixed stop.
C13_Witness ==
    /\ ex.account = "day_trader"
    /\ \E s \in ExSymbolSet :
         /\ ex.act[s].reason = "held"
         /\ ex.act[s].high >= StrategyConfig(ex.act[s].strategy).trail_activate_pct
         /\ ex.pos[s].floor = ex.act[s].trail
         /\ ex.pos[s].floor > 0 - ex.act[s].stop

\* C14: while a position stays open under one executor instance (day trader
\* or signal echo) its effective floor never decreases from one monitoring
\* cycle to the next (floor: the floor of the last evaluation, NoMark when
\* none is in force).
C14_FloorNeverLoosens ==
    [][ (ex.account \in {"day_trader", "signal_echo"} /\ ~ExRestart) =>
            \A s \in ExSymbolSet :
                (ex.pos[s].held /\ ex'.pos[s].held)
                    => ex'.pos[s].floor >= ex.pos[s].floor ]_vars

\* the level the fixed stop of the position in s is at: -stop_pct for the
\* day trader; the signal echo executor reads no stop_pct, the deepest loss
\* a position can show stands for the loosest fixed stop it could have
FixedStopLevel(s) ==
    IF ex.account = "day_trader" THEN 0 - ex.act[s].stop ELSE SetMin(ExLevels)

\* C15: in the day trader and the signal echo executor, a position whose
\* high-water mark was lost in a restart and whose P&L % is at or below the
\* fixed stop level when the next monitoring cycle evaluates it is closed by
\* that cycle.
C15_FixedStopSurvivesRestart ==
    ex.account \in {"day_trader", "signal_echo"} =>
        \A s \in ExSymbolSet :
            (Evaluated(s) /\ ex.act[s].lost /\ ex.act[s].pnl <= FixedStopLevel(s))
                => ClosedByMonitor(s)

\* C16: a monitoring cycle evaluates the exit checks of every position the
\* brokerage reports that no close was recorded for: each has an open trade
\* carrying its exit policy, also when insert_trade failed after the order
\* was submitted.
C16_EveryPositionEvaluated ==
    \A s \in ExSymbolSet :
        (ex.pos[s].held /\ ex.pos[s].outcomes = 0 /\ ex.act[s].reason # "none")
            => (Evaluated(s) /\ OpenTradesFor(ex.trades, s) # {})

C18_OneOutcomePerClose ==
    /\ \A s \in ExSymbolSet : ex.pos[s].outcomes <= 1
    /\ \A i \in DOMAIN ex.trades :
          ex.trades[i].status = "closed" => ex.trades[i].outcomes = 1

\* trade row i is in an open status and the brokerage holds no position in
\* its symbol
OpenWithoutPosition(i) ==
    /\ i \in DOMAIN ex.trades
    /\ ex.trades[i].status = "open"
    /\ ~ex.pos[ex.trades[i].symbol].held
TradeClosed(i) == i \in DOMAIN ex.trades /\ ex.trades[i].status = "closed"

\* C19: a trade whose position is gone from the brokerage (closed outside the
\* executor) eventually gets status closed: no trade stays open for ever
\* without a position.
C19_ExternalCloseClosesTrade ==
    \A i \in 1..MaxOpens : OpenWithoutPosition(i) ~> TradeClosed(i)

\* C20: the high-water mark an evaluation uses for the trailing stop of a
\* position is never above the highest P&L % the monitoring cycles observed
\* for that position since its entry: no mark of an earlier position of the
\* symbol is carried over.
C20_MarkBelongsToPosition ==
    ex.account \in {"day_trader", "signal_echo"} =>
        \A s \in ExSymbolSet :
            (Evaluated(s) /\ ex.act[s].high > 0)
                => ex.act[s].high <= ex.act[s].seen

(***************************************************************************)
(* Position sizing: one call of RiskManager.calculate_position_size, its   *)
(* inputs drawn from the configurations, working capitals, confidences and *)
(* adaptive_config rows below, and the fraction Executor._execute_single   *)
(* multiplies the result by.                                               *)
(***************************************************************************)
\* the configured accounts and the configuration of the tests (8 %)
SzConfigs ==
    {ACCOUNT_CONFIGS[a] : a \in AccountIds}
        \cup {[NoLimits EXCEPT !.max_position_pct = 8]}
\* working capital in cents: a lost account, an empty one, one cent, the
\* starting capital and amounts with odd cents
SzCapitals == {0 - Dollars(500), 0, 1, Dollars(10000), Dollars(10000) + 33,
               Dollars(9873) + 57, Dollars(1) + 25}
SzConfidences == {0, 1, 49, 50, 51, 75, 99, 100}
\* the value of the max_position_pct row of adaptive_config, in percent
\* (NoVal: no row)
SzAdaptive == {NoVal, 0, 5, 8, 20}
\* position_size_pct of the signal, in percent
SzFractions == {0, 25, 50, 100}

SzInit ==
    /\ fn \in [op : {"size"}, cfg : SzConfigs, wc : SzCapitals,
                confidence : SzConfidences, adaptive : SzAdaptive,
                readOk : BOOLEAN, fraction : SzFractions,
                done : {FALSE}, size : {0}, sized : {0}]
    /\ rk = RiskIdle
    /\ rkOut = NoResult
    /\ cap = CapIdle
    /\ cy = CyIdle
    /\ ex = ExIdle

\* db.get_adaptive_config(account_id, parameter="max_position_pct"): the
\* row, none when the table has none or the read fails
SzOverride(adaptive, readOk) == IF readOk THEN adaptive ELSE NoVal

\* calculate_position_size(symbol, confidence), then max_position * size_pct
\* (sized: in hundredths of a cent)
SzCall ==
    /\ fn.op = "size" /\ ~fn.done
    /\ LET size == CalculatePositionSize(fn.cfg, fn.wc, fn.confidence,
                                         SzOverride(fn.adaptive, fn.readOk))
       IN  fn' = [fn EXCEPT !.done = TRUE, !.size = size,
                            !.sized = size * fn.fraction]
    /\ UNCHANGED <<rk, rkOut, cap, cy, ex>>

SzNext == SzCall
SpecSize == SzInit /\ [][SzNext]_vars

\* the size the call in fn would have returned for confidence c
SzSizeAt(c) ==
    CalculatePositionSize(fn.cfg, fn.wc, c, SzOverride(fn.adaptive, fn.readOk))
\* working_capital * max_position_pct, in hundredths of a cent
SzCeiling == fn.wc * MaxPositionPct(fn.cfg)
SzDone == fn.op = "size" /\ fn.done

\* C21 (as stated): the size returned does not decrease when the confidence
\* or the size fraction grows, and never exceeds working capital x
\* max_position_pct, for every working capital.
C21_MonotoneAndBelowCeiling ==
    SzDone =>
        /\ \A c \in SzConfidences : c >= fn.confidence => SzSizeAt(c) >= fn.size
        /\ \A f \in SzFractions : f >= fn.fraction => fn.size * f >= fn.sized
        /\ fn.size * 100 <= SzCeiling

\* C21 (amended): for a working capital that is not negative, the size
\* returned does not decrease when the confidence or the size fraction grows,
\* and exceeds working capital x max_position_pct by at most the half cent
\* of the rounding.
C21_MonotoneAndBelowRoundedCeiling ==
    (SzDone /\ fn.wc >= 0) =>
        /\ \A c \in SzConfidences : c >= fn.confidence => SzSizeAt(c) >= fn.size
        /\ \A f \in SzFractions : f >= fn.fraction => fn.size * f >= fn.sized
        /\ fn.size * 100 <= SzCeiling + 50

\* C21 (witness): a call at full confidence whose result is the ceiling
\* rounded up, above a call at a lower confidence.
C21_Witness ==
    /\ SzDone
    /\ fn.wc > 0 /\ fn.confidence = 100
    /\ fn.size * 100 > SzCeiling
    /\ SzSizeAt(50) < fn.size

\* no adaptive row was read by the call
SzPlain == SzDone /\ SzOverride(fn.adaptive, fn.readOk) = NoVal
\* clamp(confidence / 100, 0.5, 1.0), in percent
SzClamp(c) == IF c < 50 THEN 50 ELSE IF c > 100 THEN 100 ELSE c
\* cents is the amount of amount10k ten-thousandths of a cent rounded to the
\* nearest cent
SzIsRounded(cents, amount10k) ==
    /\ cents * 10000 - amount10k <= 5000
    /\ amount10k - cents * 10000 <= 5000

\* C22 (as stated): without an adaptive override the size is working
\* capital x max_position_pct x clamp(confidence/100, 0.5, 1.0) rounded to
\* cents; a confidence of 50 or less gives half the ceiling, never zero for a
\* positive working capital; confidence 100 gives the ceiling, 800.00 for
\* 10,000 at 8 %.
C22_ClampedScale ==
    SzPlain =>
        /\ SzIsRounded(fn.size, SzCeiling * SzClamp(fn.confidence))
        /\ fn.confidence <= 50 => /\ SzIsRounded(fn.size, SzCeiling * 50)
                                  /\ fn.wc > 0 => fn.size > 0
        /\ fn.confidence = 100 => SzIsRounded(fn.size, SzCeiling * 100)
        /\ (fn.confidence = 100 /\ fn.wc = Dollars(10000)
               /\ MaxPositionPct(fn.cfg) = 8) => fn.size = Dollars(800)

\* C22 (amended): the same, the size being above zero when half the ceiling
\* is more than half a cent.
C22_ClampedScaleAboveHalfCent ==
    SzPlain =>
        /\ SzIsRounded(fn.size, SzCeiling * SzClamp(fn.confidence))
        /\ fn.confidence <= 50 => /\ SzIsRounded(fn.size, SzCeiling * 50)
                                  /\ SzCeiling * 50 > 5000 => fn.size > 0
        /\ fn.confidence = 100 => SzIsRounded(fn.size, SzCeiling * 100)
        /\ (fn.confidence = 100 /\ fn.wc = Dollars(10000)
               /\ MaxPositionPct(fn.cfg) = 8) => fn.size = Dollars(800)

\* C22 (witness): 10,000 at 8 % and a confidence below 50 gives 400.00, where
\* confidence 100 gives 800.00.
C22_Witness ==
    /\ SzPlain
    /\ fn.confidence < 50 /\ fn.wc = Dollars(10000)
    /\ MaxPositionPct(fn.cfg) = 8
    /\ fn.size = Dollars(400)
    /\ SzSizeAt(100) = Dollars(800)

Min(a, b) == IF a <= b THEN a ELSE b
\* working_capital * adaptive_pct, in hundredths of a cent
SzAdaptiveMax == fn.wc * fn.adaptive

\* C23: with an adaptive max_position_pct row the size is the lesser of the
\* notional from the configured limit and working capital x adaptive_pct
\* (the same working capital), rounded to cents, so never above the size
\* without the row; when the row cannot be read the size is the notional from
\* the configured limit.
C23_AdaptiveOnlyLowers ==
    SzDone =>
        IF SzOverride(fn.adaptive, fn.readOk) # NoVal
        THEN /\ SzIsRounded(fn.size, Min(SzCeiling * SzClamp(fn.confidence),
                                          SzAdaptiveMax * 100))
             /\ fn.size <= CalculatePositionSize(fn.cfg, fn.wc, fn.confidence,
                                                 NoVal)
        ELSE SzIsRounded(fn.size, SzCeiling * SzClamp(fn.confidence))

\* C23 (witness): an override of 5 % lowers a size computed under a higher
\* configured limit, and an override that is not read leaves it alone.
C23_Witness ==
    /\ SzDone /\ fn.readOk /\ fn.adaptive = 5
    /\ fn.wc = Dollars(10000) /\ fn.confidence = 100
    /\ fn.size = Dollars(500)
    /\ CalculatePositionSize(fn.cfg, fn.wc, fn.confidence, NoVal) > fn.size

\* ---------------------------------------------------------------------------
\* Python floats.  The scorer computes in binary64; its results depend on the
\* rounding of every product and sum, so the arithmetic is modelled exactly:
\* a natural number is a little-endian sequence of base-2^15 digits, a float
\* is m * 2^e with m of exactly 53 bits (or zero).  All values here are
\* positive and far from the subnormal and overflow ranges.
\* ---------------------------------------------------------------------------
BigBase == 2 ^ 15

RECURSIVE BigTrim(_)
BigTrim(a) ==
    IF a = <<>> THEN <<>>
    ELSE IF a[Len(a)] = 0 THEN BigTrim(SubSeq(a, 1, Len(a) - 1))
    ELSE a

RECURSIVE BigOfInt(_)
BigOfInt(n) == IF n = 0 THEN <<>> ELSE <<n % BigBase>> \o BigOfInt(n \div BigBase)

RECURSIVE BigToInt(_)
BigToInt(a) == IF a = <<>> THEN 0 ELSE Head(a) + BigBase * BigToInt(Tail(a))

RECURSIVE BigAddC(_, _, _)
BigAddC(a, b, c) ==
    IF a = <<>> /\ b = <<>> THEN (IF c = 0 THEN <<>> ELSE <<c>>)
    ELSE LET x == IF a = <<>> THEN 0 ELSE Head(a)
             y == IF b = <<>> THEN 0 ELSE Head(b)
             t == x + y + c
         IN  <<t % BigBase>>
                 \o BigAddC(IF a = <<>> THEN a ELSE Tail(a),
                            IF b = <<>> THEN b ELSE Tail(b), t \div BigBase)

BigAdd(a, b) == BigAddC(a, b, 0)

RECURSIVE BigMulDigit(_, _, _)
BigMulDigit(a, d, c) ==
    IF a = <<>> THEN (IF c = 0 THEN <<>> ELSE <<c>>)
    ELSE LET t == Head(a) * d + c
         IN  <<t % BigBase>> \o BigMulDigit(Tail(a), d, t \div BigBase)

RECURSIVE BigMul(_, _)
BigMul(a, b) ==
    IF b = <<>> \/ a = <<>> THEN <<>>
    ELSE BigTrim(BigAdd(BigMulDigit(a, Head(b), 0), <<0>> \o BigMul(a, Tail(b))))

\* quotient and remainder of a by a digit-sized divisor
RECURSIVE BigDivDigit(_, _)
BigDivDigit(a, d) ==
    IF a = <<>> THEN [q |-> <<>>, r |-> 0]
    ELSE LET hi == BigDivDigit(Tail(a), d)
             t == hi.r * BigBase + Head(a)
         IN  [q |-> <<t \div d>> \o hi.q, r |-> t % d]

RECURSIVE BigCmp(_, _)
BigCmp(a, b) ==
    IF Len(a) # Len(b) THEN (IF Len(a) < Len(b) THEN 0 - 1 ELSE 1)
    ELSE IF a = <<>> THEN 0
    ELSE IF a[Len(a)] # b[Len(b)] THEN (IF a[Len(a)] < b[Len(b)] THEN 0 - 1 ELSE 1)
    ELSE BigCmp(SubSeq(a, 1, Len(a) - 1), SubSeq(b, 1, Len(b) - 1))

BigLeq(a, b) == BigCmp(BigTrim(a), BigTrim(b)) <= 0

RECURSIVE IntBits(_)
IntBits(n) == IF n = 0 THEN 0 ELSE 1 + IntBits(n \div 2)

BigBits(a) == IF a = <<>> THEN 0 ELSE 15 * (Len(a) - 1) + IntBits(a[Len(a)])

BigShl(a, n) ==
    IF a = <<>> THEN a
    ELSE BigTrim(BigMulDigit([i \in 1..(n \div 15) |-> 0] \o a, 2 ^ (n % 15), 0))

BigShr(a, n) ==
    IF n \div 15 >= Len(a) THEN <<>>
    ELSE BigTrim(BigDivDigit(SubSeq(a, (n \div 15) + 1, Len(a)), 2 ^ (n % 15)).q)

BigOdd(a) == a # <<>> /\ Head(a) % 2 = 1

\* a / 2^n rounded to the nearest integer, ties to even: a1 is a / 2^(n-1)
\* and q is a / 2^n, both rounded down; sticky tells that a bit below the
\* half bit is set
BigRoundUp(a1, q, sticky) ==
    IF BigOdd(a1) /\ (sticky \/ BigOdd(q)) THEN BigTrim(BigAdd(q, <<1>>)) ELSE q

BigRoundHalf(a, n, a1) == BigRoundUp(a1, BigShr(a1, 1), BigShl(a1, n - 1) # a)

BigRoundShr(a, n) == IF n = 0 THEN a ELSE BigRoundHalf(a, n, BigShr(a, n - 1))

FZero == [m |-> <<>>, e |-> 0]

\* a rounded mantissa of 54 bits (all ones rounded up) is brought back to 53
FNorm(q, e) ==
    IF BigBits(q) = 54 THEN [m |-> BigShr(q, 1), e |-> e + 1] ELSE [m |-> q, e |-> e]

\* the float nearest to t * 2^e, t of L bits (round to nearest, ties to even)
FRoundBits(t, L, e) ==
    IF t = <<>> THEN FZero
    ELSE IF L <= 53 THEN [m |-> BigShl(t, 53 - L), e |-> e - (53 - L)]
    ELSE FNorm(BigRoundShr(t, L - 53), e + (L - 53))

FRoundTrimmed(t, e) == FRoundBits(t, BigBits(t), e)

FRound(a, e) == FRoundTrimmed(BigTrim(a), e)

FMul(x, y) == FRound(BigMul(x.m, y.m), x.e + y.e)

FAddAt(x, y, lo) == FRound(BigAdd(BigShl(x.m, x.e - lo), BigShl(y.m, y.e - lo)), lo)

FAdd(x, y) ==
    IF x.m = <<>> THEN y
    ELSE IF y.m = <<>> THEN x
    ELSE FAddAt(x, y, IF x.e < y.e THEN x.e ELSE y.e)

\* the float nearest to (q + r/d) / 2^75, the remainder r kept as a sticky bit
FOfQuotient(q, r) ==
    FRound(BigAdd(BigMulDigit(q, 2, 0), IF r = 0 THEN <<>> ELSE <<1>>), 0 - 76)

FOfDivision(dv) == FOfQuotient(BigTrim(dv.q), dv.r)

\* the float nearest to n / d, as a literal or a database number is parsed
FOfRatio(n, d) ==
    IF n = 0 THEN FZero ELSE FOfDivision(BigDivDigit(BigShl(BigOfInt(n), 75), d))

\* round(x, 2) in hundredths: the decimal nearest to the float's exact value
FRound2(x) ==
    IF x.m = <<>> THEN 0
    ELSE IF x.e >= 0 THEN BigToInt(BigShl(BigMulDigit(x.m, 100, 0), x.e))
    ELSE BigToInt(BigRoundShr(BigTrim(BigMulDigit(x.m, 100, 0)), 0 - x.e))

\* ---------------------------------------------------------------------------
\* Signal composite scorer (account1_quiver/signal_scorer.py).
\* Strengths are hundredths (the generator rounds them to two decimals),
\* weights thousandths (the updater rounds them to three), multipliers and
\* bonuses tenths; composite scores are hundredths, as round(total, 2) is.
\* ---------------------------------------------------------------------------
BASE_SCORES ==
    [house_trading |-> 30, senate_trading |-> 30, gov_contracts |-> 25,
     gov_contracts_all |-> 25, lobbying |-> 20, off_exchange |-> 10,
     flights |-> 10, insider |-> 35, wikipedia |-> 10, wsb |-> 10]

CONVERGENCE_MULTIPLIERS == (2 :> 14) @@ (3 :> 18) @@ (4 :> 23)

COMBO_BONUSES ==
    << [combo |-> {"lobbying", "gov_contracts"}, bonus |-> 15],
       [combo |-> {"lobbying", "gov_contracts_all"}, bonus |-> 15],
       [combo |-> {"house_trading", "senate_trading"}, bonus |-> 14] >>

MIN_COMPOSITE_SCORE == 15 * 100

\* active scoring_rules rows the weekly review can have written: one combo row
DbComboRules == << [combo |-> {"lobbying", "gov_contracts"}, bonus |-> 15] >>

\* _load_scoring_rules: rows of a type replace the hardcoded rules of that type
LoadScoringRules(rules) ==
    [convergence |-> CONVERGENCE_MULTIPLIERS,
     combos |-> IF rules = "db" THEN DbComboRules ELSE COMBO_BONUSES]

\* signal_weights rows of the account, {source: weight}
SignalWeights(name) ==
    IF name = "adapted"
    THEN [house_trading |-> 1300, lobbying |-> 745, off_exchange |-> 500]
    ELSE [s \in {} |-> 1000]

NoTotals ==
    [total_score |-> FZero, sources |-> {}, primary_direction |-> "buy",
     primary_signals |-> 0, confirmation_signals |-> 0]

\* BASE_SCORES.get(source, 10)
BaseScore(source) == IF source \in DOMAIN BASE_SCORES THEN BASE_SCORES[source] ELSE 10

\* self.weights.get(source, 1.0)
WeightOf(weights, source) == IF source \in DOMAIN weights THEN weights[source] ELSE 1000

\* signal_score = base * strength; signal_score *= float(weight)
SignalScore(signal, weights) ==
    FMul(FMul(FOfRatio(BaseScore(signal.source), 1), FOfRatio(signal.strength, 100)),
         FOfRatio(WeightOf(weights, signal.source), 1000))

\* one pass of the loop body: the totals after a signal
ScoreStep(acc, signal, signal_score, primary) ==
    [total_score |-> FAdd(acc.total_score, signal_score),
     sources |-> acc.sources \cup {signal.source},
     primary_direction |-> IF primary THEN signal.direction ELSE acc.primary_direction,
     primary_signals |-> acc.primary_signals + (IF primary THEN 1 ELSE 0),
     confirmation_signals |-> acc.confirmation_signals + (IF primary THEN 0 ELSE 1)]

\* the loop over a symbol's signals
RECURSIVE ScoreLoop(_, _, _)
ScoreLoop(signals, weights, acc) ==
    IF signals = <<>> THEN acc
    ELSE ScoreLoop(Tail(signals), weights,
             ScoreStep(acc, Head(signals), SignalScore(Head(signals), weights),
                       Head(signals).signal_role # "confirmation"))

ApplyConvergenceAtLeast(total, unique_sources, convergence) ==
    IF \E n \in DOMAIN convergence : n <= unique_sources
    THEN FMul(total,
              FOfRatio(convergence[CHOOSE n \in DOMAIN convergence :
                                       /\ n <= unique_sources
                                       /\ \A k \in DOMAIN convergence :
                                             k <= unique_sources => k <= n], 10))
    ELSE total

ApplyConvergence(total, unique_sources, convergence) ==
    IF unique_sources \in DOMAIN convergence
    THEN FMul(total, FOfRatio(convergence[unique_sources], 10))
    ELSE total

RECURSIVE ApplyCombos(_, _, _)
ApplyCombos(total, sources, combos) ==
    IF combos = <<>> THEN total
    ELSE ApplyCombos(IF Head(combos).combo \subseteq sources
                     THEN FMul(total, FOfRatio(Head(combos).bonus, 10))
                     ELSE total,
                     sources, Tail(combos))

\* total_score *= 0.3 for confirmation-only signals
ApplyDiscount(total, acc) ==
    IF acc.primary_signals = 0 /\ acc.confirmation_signals > 0
    THEN FMul(total, FOfRatio(3, 10))
    ELSE total

\* the dict _compute_composite returns
Composite(symbol, signals, acc, total_score) ==
    [symbol |-> symbol,
     composite_score |-> FRound2(total_score),
     direction |-> acc.primary_direction,
     sources |-> acc.sources,
     source_count |-> Cardinality(acc.sources),
     signals |-> signals,
     has_primary |-> acc.primary_signals > 0]

\* _compute_composite after its loop
CompositeOf(symbol, signals, acc, rules) ==
    Composite(symbol, signals, acc,
        ApplyDiscount(
            ApplyCombos(
                ApplyConvergence(acc.total_score, Cardinality(acc.sources),
                                 rules.convergence),
                acc.sources, rules.combos),
            acc))

\* _compute_composite
ComputeComposite(symbol, signals, weights, rules) ==
    CompositeOf(symbol, signals, ScoreLoop(signals, weights, NoTotals), rules)

\* the symbols of a signal list in order of first appearance (defaultdict keys)
RECURSIVE SymbolsOf(_, _)
SymbolsOf(signals, seen) ==
    IF signals = <<>> THEN <<>>
    ELSE IF Head(signals).symbol \in seen THEN SymbolsOf(Tail(signals), seen)
    ELSE <<Head(signals).symbol>>
             \o SymbolsOf(Tail(signals), seen \cup {Head(signals).symbol})

\* list.sort(key=composite_score, reverse=True): stable, descending
SortInsert(x, rest) ==
    SelectSeq(rest, LAMBDA y : y.composite_score > x.composite_score)
        \o <<x>>
        \o SelectSeq(rest, LAMBDA y : y.composite_score <= x.composite_score)

RECURSIVE SortScored(_)
SortScored(scored) ==
    IF scored = <<>> THEN <<>> ELSE SortInsert(Head(scored), SortScored(Tail(scored)))

\* the composites of the symbols, one per symbol in order of first appearance
ScoreEach(symbols, signals, weights, rules) ==
    [i \in 1..Len(symbols) |->
        ComputeComposite(symbols[i], SelectSeq(signals, LAMBDA s : s.symbol = symbols[i]),
                         weights, rules)]

\* the sorted list and what is left of it above the threshold
Ranked(scored) ==
    [done |-> TRUE, scored |-> scored,
     filtered |-> SelectSeq(scored, LAMBDA c : c.composite_score >= MIN_COMPOSITE_SCORE)]

\* score_signals
ScoreSignals(signals, weights, rules) ==
    Ranked(SortScored(ScoreEach(SymbolsOf(signals, {}), signals, weights, rules)))

\* --- one scorer instance scoring a batch of signals, then the same batch in
\* --- another order
MaxSignals == 2

Sig(symbol, source, strength, role, direction) ==
    [symbol |-> symbol, source |-> source, strength |-> strength,
     signal_role |-> role, direction |-> direction]

HouseBuy == Sig("AAPL", "house_trading", 80, "primary", "buy")
SenateSell == Sig("AAPL", "senate_trading", 70, "primary", "sell")
ContractBuy == Sig("AAPL", "gov_contracts", 55, "primary", "buy")
ContractAllBuy == Sig("AAPL", "gov_contracts_all", 55, "primary", "buy")
LobbyingBuy == Sig("AAPL", "lobbying", 15, "primary", "buy")
ShortSell == Sig("AAPL", "off_exchange", 93, "confirmation", "sell")
WsbBuy == Sig("AAPL", "wsb", 45, "confirmation", "buy")
OtherHouseSell == Sig("MSFT", "house_trading", 30, "primary", "sell")

ScPool ==
    {HouseBuy, SenateSell, ContractBuy, ContractAllBuy, LobbyingBuy, ShortSell,
     WsbBuy, OtherHouseSell}

ScBatches ==
    { <<ContractBuy, ContractAllBuy, LobbyingBuy>>,
      <<HouseBuy, SenateSell, ContractBuy, LobbyingBuy>>,
      <<HouseBuy, SenateSell, ContractBuy, LobbyingBuy, ShortSell>>,
      <<ShortSell, WsbBuy, OtherHouseSell>> }

ScLists == UNION {[1..n -> ScPool] : n \in 1..MaxSignals} \cup ScBatches

ScSetups ==
    { [weights |-> "none", rules |-> "hardcoded"],
      [weights |-> "adapted", rules |-> "hardcoded"],
      [weights |-> "none", rules |-> "db"] }

NoScores == [done |-> FALSE, scored |-> <<>>, filtered |-> <<>>]

ScInit ==
    /\ \E signals \in ScLists, setup \in ScSetups :
          fn = [op |-> "score", signals |-> signals, weights |-> setup.weights,
                rules |-> setup.rules, out |-> NoScores, order |-> <<>>,
                alt |-> NoScores]
    /\ rk = RiskIdle /\ rkOut = NoResult /\ cap = CapIdle /\ cy = CyIdle /\ ex = ExIdle

ScRun(signals) ==
    ScoreSignals(signals, SignalWeights(fn.weights), LoadScoringRules(fn.rules))

ScPerms(n) == {p \in [1..n -> 1..n] : \A i, j \in 1..n : p[i] = p[j] => i = j}

\* score_signals on the batch as it arrived
ScScore ==
    /\ fn.op = "score" /\ ~fn.out.done
    /\ fn' = [fn EXCEPT !.out = ScRun(fn.signals)]
    /\ UNCHANGED <<rk, rkOut, cap, cy, ex>>

\* score_signals on the same signals in the order p
ScScorePermuted(p) ==
    /\ fn.op = "score" /\ fn.out.done /\ ~fn.alt.done
    /\ fn' = [fn EXCEPT !.order = p,
                        !.alt = ScRun([i \in 1..Len(fn.signals) |-> fn.signals[p[i]]])]
    /\ UNCHANGED <<rk, rkOut, cap, cy, ex>>

ScNext ==
    \/ ScScore
    \/ \E p \in ScPerms(Len(fn.signals)) : ScScorePermuted(p)

SpecScore == ScInit /\ [][ScNext]_vars

\* ---------------------------------------------------------------------------
\* Claims about the composite scorer
\* ---------------------------------------------------------------------------
\* sum over the signals of base_score x strength x weight, in 1/100000
RECURSIVE ScRawSum(_, _)
ScRawSum(signals, weights) ==
    IF signals = <<>> THEN 0
    ELSE LET s == Head(signals)
         IN  (IF s.source \in DOMAIN BASE_SCORES THEN BASE_SCORES[s.source] ELSE 10)
                 * s.strength
                 * (IF s.source \in DOMAIN weights THEN weights[s.source] ELSE 1000)
             + ScRawSum(Tail(signals), weights)

ScSources(signals) == {signals[i].source : i \in DOMAIN signals}

\* the multipliers the rules give a symbol's signals, in tenths
ScFactors(signals, rules) ==
    LET n == Cardinality(ScSources(signals))
        hit == SelectSeq(rules.combos, LAMBDA c : c.combo \subseteq ScSources(signals))
    IN  (IF n \in DOMAIN rules.convergence THEN <<rules.convergence[n]>> ELSE <<>>)
            \o [i \in 1..Len(hit) |-> hit[i].bonus]
            \o (IF \A i \in DOMAIN signals : signals[i].signal_role = "confirmation"
                THEN <<3>> ELSE <<>>)

RECURSIVE BigTimes(_, _)
BigTimes(a, digits) ==
    IF digits = <<>> THEN a ELSE BigTimes(BigMulDigit(a, Head(digits), 0), Tail(digits))

\* twice the formula's value over ScFormulaDen is the score in hundredths
ScFormulaNum2(c) ==
    BigTimes(BigOfInt(2 * ScRawSum(c.signals, SignalWeights(fn.weights))),
             ScFactors(c.signals, LoadScoringRules(fn.rules)))

ScFormulaDen(c) ==
    BigTimes(BigOfInt(1000),
             [i \in 1..Len(ScFactors(c.signals, LoadScoringRules(fn.rules))) |-> 10])

ScExample ==
    /\ fn.signals = <<HouseBuy, SenateSell>>
    /\ fn.weights = "none"
    /\ fn.rules = "db"

\* C24 as stated: the composite score of a symbol equals the sum of base score
\* x strength x weight over its signals, times the convergence multiplier when
\* the number of distinct sources is exactly a configured tier, times every
\* combo bonus whose sources were all observed, times 0.3 when no signal is
\* primary; the two-source example gives 63.0.
C24_ExactFormula ==
    fn.op = "score" /\ fn.out.done =>
        /\ \A i \in DOMAIN fn.out.scored :
              LET c == fn.out.scored[i]
              IN  BigTrim(BigMul(BigOfInt(2 * c.composite_score), ScFormulaDen(c)))
                      = BigTrim(ScFormulaNum2(c))
        /\ ScExample => fn.out.scored[1].composite_score = 6300

\* C24, amended: the composite score of a symbol is that product rounded to
\* two decimals (it is within half a hundredth of it); the two-source example
\* gives 63.0.
C24_FormulaToTwoDecimals ==
    fn.op = "score" /\ fn.out.done =>
        /\ \A i \in DOMAIN fn.out.scored :
              LET c == fn.out.scored[i]
                  den == ScFormulaDen(c)
                  num2 == ScFormulaNum2(c)
              IN  /\ BigLeq(BigMul(BigOfInt(2 * c.composite_score), den), BigAdd(num2, den))
                  /\ BigLeq(num2, BigMul(BigOfInt(2 * c.composite_score + 1), den))
        /\ ScExample => fn.out.scored[1].composite_score = 6300

\* C24 witness: three distinct sources with both lobbying combos scored under
\* the hardcoded rules: 30.5 x 1.8 x 1.5 x 1.5 = 123.525, reported to two
\* decimals
C24_Witness ==
    /\ fn.op = "score" /\ fn.out.done
    /\ fn.signals = <<ContractBuy, ContractAllBuy, LobbyingBuy>>
    /\ fn.weights = "none" /\ fn.rules = "hardcoded"
    /\ fn.out.scored[1].source_count = 3
    /\ fn.out.scored[1].composite_score \in {12352, 12353}

ScScoreOf(scored, symbol) ==
    {scored[i].composite_score : i \in {j \in DOMAIN scored : scored[j].symbol = symbol}}

ScSymbols(scored) == {scored[i].symbol : i \in DOMAIN scored}

\* C25: composite scoring is order-independent: score_signals on any
\* permutation of a signal list returns the same composite score for every
\* symbol and the same set of symbols above the threshold.
C25_OrderIndependent ==
    fn.op = "score" /\ fn.out.done /\ fn.alt.done =>
        /\ \A s \in ScSymbols(fn.out.scored) :
              ScScoreOf(fn.alt.scored, s) = ScScoreOf(fn.out.scored, s)
        /\ ScSymbols(fn.alt.filtered) = ScSymbols(fn.out.filtered)

\* the primary-role signals of a symbol's signal list, in input order
ScPrimaries(signals) == SelectSeq(signals, LAMBDA s : s.signal_role # "confirmation")

\* C26: the direction of a symbol's composite is the direction of the first
\* primary-role signal processed for the symbol: with several primary signals
\* of different directions the first in input order wins.
C26_FirstPrimaryWins ==
    fn.op = "score" /\ fn.out.done =>
        \A i \in DOMAIN fn.out.scored :
            LET c == fn.out.scored[i]
            IN  ScPrimaries(c.signals) # <<>> =>
                    c.direction = ScPrimaries(c.signals)[1].direction

\* ---------------------------------------------------------------------------
\* Adaptive weight updater (learning/adaptive_weights.py).
\* A scorecard row carries win_rate in tenths of a percent and avg_return_pct
\* in hundredths (update_scorecard rounds them so); weights are thousandths,
\* a weight before rounding is in ten-thousandths.
\* ---------------------------------------------------------------------------
MIN_SAMPLE_SIZE == 20

MaxRows == 2
MaxRuns == 2

WtSources == {"house_trading", "lobbying"}

\* signal_scorecard rows of the account
WtRows ==
    [signal_source : WtSources, acted_on : {MIN_SAMPLE_SIZE - 1, MIN_SAMPLE_SIZE},
     win_rate : {1000}, avg_return_pct : {0 - 1200}]
    \cup [signal_source : WtSources, acted_on : {MIN_SAMPLE_SIZE - 1, MIN_SAMPLE_SIZE},
          win_rate : {0}, avg_return_pct : {37}]

\* what db.get_scorecard can return: no row (or a failed read), or some rows
WtScorecards == UNION {[1..n -> WtRows] : n \in 0..MaxRows}

\* new_weight before rounding
NewWeight(sc) ==
    LET win_rate == IF sc.win_rate = 0 THEN 500 ELSE sc.win_rate
        win_rate_part == (win_rate - 500) * 8
        raw_return == sc.avg_return_pct * 6
        return_part == IF raw_return < 0 - 1500 THEN 0 - 1500
                       ELSE IF raw_return > 1500 THEN 1500 ELSE raw_return
        new_weight == 10000 + win_rate_part + return_part
    IN  IF new_weight < 3000 THEN 3000
        ELSE IF new_weight > 20000 THEN 20000 ELSE new_weight

\* round(new_weight, 3)
RoundMilli(x) ==
    LET q == x \div 10
        r == x % 10
    IN  IF r < 5 THEN q ELSE IF r > 5 THEN q + 1 ELSE IF q % 2 = 0 THEN q ELSE q + 1

GateNeverSkips(sc) == FALSE

\* if acted_on < MIN_SAMPLE_SIZE: continue
GateSkips(sc) == sc.acted_on < MIN_SAMPLE_SIZE

\* the loop over the scorecard rows; table is the signal_weights table, read
\* again for every row; written collects the upserts requested
RECURSIVE AdjustLoop(_, _, _, _, _)
AdjustLoop(scorecards, table, weightsOk, upsertOk, written) ==
    IF scorecards = <<>> THEN [table |-> table, written |-> written]
    ELSE LET sc == Head(scorecards)
             source == sc.signal_source
             new_weight == NewWeight(sc)
             current == IF weightsOk /\ table[source] # NoVal THEN table[source] ELSE 1000
             adjust == Abs(new_weight - current * 10) * 10 > current * 10
         IN  IF GateSkips(sc) \/ ~adjust
             THEN AdjustLoop(Tail(scorecards), table, weightsOk, upsertOk, written)
             ELSE AdjustLoop(Tail(scorecards),
                      IF upsertOk THEN [table EXCEPT ![source] = RoundMilli(new_weight)]
                      ELSE table,
                      weightsOk, upsertOk,
                      written \cup {[signal_source |-> source,
                                     weight |-> RoundMilli(new_weight),
                                     sample_size |-> sc.acted_on]})

WtInit ==
    /\ fn = [op |-> "weights", table |-> [s \in WtSources |-> NoVal], runs |-> 0,
             last |-> [passed |-> {}, skipped |-> {},
                       before |-> [s \in WtSources |-> NoVal], written |-> {}]]
    /\ rk = RiskIdle /\ rkOut = NoResult /\ cap = CapIdle /\ cy = CyIdle /\ ex = ExIdle

\* the sources with a scorecard row under the sample-size gate, or with a
\* row not under it
WtRowSources(scorecards, under) ==
    {scorecards[i].signal_source :
        i \in {j \in DOMAIN scorecards : (scorecards[j].acted_on < MIN_SAMPLE_SIZE) = under}}

\* update_signal_weights(account_id), one weekly review
UpdateSignalWeights(scorecards, weightsOk, upsertOk) ==
    /\ fn.op = "weights" /\ fn.runs < MaxRuns
    /\ LET r == AdjustLoop(scorecards, fn.table, weightsOk, upsertOk, {})
       IN  fn' = [fn EXCEPT !.table = r.table, !.runs = fn.runs + 1,
                            !.last = [passed |-> WtRowSources(scorecards, FALSE),
                                      skipped |-> WtRowSources(scorecards, TRUE),
                                      before |-> fn.table, written |-> r.written]]
    /\ UNCHANGED <<rk, rkOut, cap, cy, ex>>

WtNext ==
    \E scorecards \in WtScorecards, weightsOk \in BOOLEAN, upsertOk \in BOOLEAN :
        UpdateSignalWeights(scorecards, weightsOk, upsertOk)

SpecWeights == WtInit /\ [][WtNext]_vars

\* C27: after any sequence of update_signal_weights runs every weight written
\* lies in [0.3, 2.0], a weight is written for a source only from a scorecard
\* with at least 20 acted-on signals, and a source below the gate keeps its
\* previous weight.
C27_WeightsGatedAndBounded ==
    fn.op = "weights" =>
        /\ \A w \in fn.last.written :
              /\ 300 <= w.weight /\ w.weight <= 2000
              /\ w.sample_size >= 20
              /\ w.signal_source \in fn.last.passed
        /\ \A s \in WtSources :
              /\ fn.table[s] # NoVal => 300 <= fn.table[s] /\ fn.table[s] <= 2000
              /\ s \notin fn.last.passed => fn.table[s] = fn.last.before[s]

\* C27 witness: a second run writes 1.25 for house_trading from a scorecard of
\* 20 acted-on signals while lobbying, at 19, keeps the 1.022 written before
C27_Witness ==
    /\ fn.op = "weights" /\ fn.runs = 2
    /\ fn.last.skipped = {"lobbying"} /\ fn.last.passed = {"house_trading"}
    /\ fn.last.before["lobbying"] = 1022 /\ fn.table["lobbying"] = 1022
    /\ fn.table["house_trading"] = 1250
    /\ [signal_source |-> "house_trading", weight |-> 1250, sample_size |-> 20]
           \in fn.last.written

\* ---------------------------------------------------------------------------
\* Advisory evaluation in the trading cycles (account2_daytrader/main.py
\* run_intraday_cycle, account1_quiver/main.py run).  The advisory service
\* answers a candidate with a decision, with nothing (an empty result) or
\* with an error (an exception in the analyzer).
\* ---------------------------------------------------------------------------
MaxSetups == 2

AdvSymbols == <<"AAPL", "TSLA", "MSFT", "NVDA">>

AdvConfidences == {55, 65, 85}

AdvReplies == {"yes", "no", "empty", "error"}

\* results of executor.execute_setup / of the entry of _execute_single
AdvResults == {"executed", "blocked", "daily_loss_limit"}

AdvInit ==
    /\ \E account \in {"day_trader", "quiver_strat"} :
          fn = [op |-> "advise", account |-> account, done |-> FALSE, log |-> <<>>]
    /\ rk = RiskIdle /\ rkOut = NoResult /\ cap = CapIdle /\ cy = CyIdle /\ ex = ExIdle

AdvEntry(symbol, requested, reply, submitted) ==
    [symbol |-> symbol, requested |-> requested, reply |-> reply, submitted |-> submitted]

\* the loop of run_intraday_cycle over the setups, from setup i on; the
\* confidence minimum of a strategy is 60, the advisory is asked below 70
RECURSIVE IntradayLoop(_, _, _, _)
IntradayLoop(confidence, reply, result, i) ==
    IF i > Len(confidence) THEN <<>>
    ELSE IF confidence[i] < 60
    THEN <<AdvEntry(AdvSymbols[i], FALSE, "none", FALSE)>>
             \o IntradayLoop(confidence, reply, result, i + 1)
    ELSE IF confidence[i] < 70 /\ reply[i] = "no"
    THEN <<AdvEntry(AdvSymbols[i], TRUE, "no", FALSE)>>
             \o IntradayLoop(confidence, reply, result, i + 1)
    ELSE LET entry == AdvEntry(AdvSymbols[i], confidence[i] < 70,
                               IF confidence[i] < 70 THEN reply[i] ELSE "none",
                               result[i] = "executed")
         IN  IF result[i] = "daily_loss_limit" THEN <<entry>>
             ELSE <<entry>> \o IntradayLoop(confidence, reply, result, i + 1)

\* run_intraday_cycle
RunIntradayCycle(cooldown, confidence, reply, result) ==
    /\ fn.op = "advise" /\ fn.account = "day_trader" /\ ~fn.done
    /\ fn' = [fn EXCEPT !.done = TRUE,
                        !.log = IF cooldown THEN <<>>
                                ELSE IntradayLoop(confidence, reply, result, 1)]
    /\ UNCHANGED <<rk, rkOut, cap, cy, ex>>

\* steps 5 and 6 of run: every scored signal is analysed, the approved ones
\* (a reply with decision and confidence at or above the minimum) go to
\* execute_signals
QuiverRunAnalysis(reply, result) ==
    /\ fn.op = "advise" /\ fn.account = "quiver_strat" /\ ~fn.done
    /\ fn' = [fn EXCEPT !.done = TRUE,
                        !.log = [i \in DOMAIN reply |->
                                    AdvEntry(AdvSymbols[i], TRUE, reply[i],
                                             reply[i] = "yes" /\ result[i] = "executed")]]
    /\ UNCHANGED <<rk, rkOut, cap, cy, ex>>

AdvNext ==
    \E n \in 0..MaxSetups :
        \E confidence \in [1..n -> AdvConfidences], reply \in [1..n -> AdvReplies],
           result \in [1..n -> AdvResults] :
            \/ \E cooldown \in BOOLEAN : RunIntradayCycle(cooldown, confidence, reply, result)
            \/ QuiverRunAnalysis(reply, result)

SpecAdvisory == AdvInit /\ [][AdvNext]_vars

\* C28: a candidate whose advisory evaluation was requested and got no
\* response (an empty result or an error) is skipped: no order is submitted
\* for it.
C28_NoResponseMeansSkip ==
    fn.op = "advise" =>
        \A i \in DOMAIN fn.log :
            fn.log[i].requested /\ fn.log[i].reply \in {"empty", "error"}
                => ~fn.log[i].submitted

\* a capital limit the account's configuration does not define: the share
\* invested, a per-position percentage or a maximum position count
LacksCapitalLimit(cfg) ==
    \/ cfg.max_invested_pct = NoVal
    \/ (cfg.max_position_pct = NoVal /\ cfg.max_per_trade_pct = NoVal)
    \/ (cfg.max_positions = NoVal /\ cfg.max_concurrent_positions = NoVal)

\* C29: a missing capital limit is never silently defaulted: for an account
\* whose configuration lacks max_invested_pct, a per-position percentage or a
\* maximum position count the risk engine fails at startup, so
\* can_open_position never answers for it.
C29_MissingLimitIsFatal ==
    LacksCapitalLimit(RiskCfg) => rkOut = NoResult

\* ---------------------------------------------------------------------------
\* Accounts and brokerage accounts (shared/config.py ALPACA_ACCOUNTS).  An
\* AlpacaClient(account_id) talks to the brokerage account of the credentials
\* configured for account_id; get_positions returns every position of that
\* brokerage account.
\* ---------------------------------------------------------------------------
ALPACA_ACCOUNTS ==
    [quiver_strat |-> "ALPACA_ACCT1_PAPER_KEY", day_trader |-> "ALPACA_ACCT2_PAPER_KEY",
     autonomous |-> "ALPACA_ACCT3_PAPER_KEY", signal_echo |-> "ALPACA_ACCT3_PAPER_KEY"]

IsoAccounts == DOMAIN ALPACA_ACCOUNTS

IsoKeys == {ALPACA_ACCOUNTS[a] : a \in IsoAccounts}

IsoSymbols == {"AAPL", "TSLA"}

NoTouch == [account |-> "none", closed |-> {}, counted |-> {}]

\* held[key]: the positions of a brokerage account, each with the account
\* whose executor opened it
IsoInit ==
    /\ fn = [op |-> "isolate", held |-> [k \in IsoKeys |-> {}], last |-> NoTouch]
    /\ rk = RiskIdle /\ rkOut = NoResult /\ cap = CapIdle /\ cy = CyIdle /\ ex = ExIdle

\* AlpacaClient(account).get_positions()
IsoGetPositions(account, ok) == IF ok THEN fn.held[ALPACA_ACCOUNTS[account]] ELSE {}

\* an executor of the account opens a position: can_open_position reads the
\* invested value and the position count from get_positions, refuses at the
\* position limit or when the symbol is held, and the order fills (into the
\* position the brokerage account already has in the symbol, if any)
IsoOpen(account, symbol, ok) ==
    LET positions == IsoGetPositions(account, ok)
        allowed == /\ Cardinality(positions) < MaxPositions(ACCOUNT_CONFIGS[account])
                   /\ \A p \in positions : p.symbol # symbol
    IN  /\ fn.op = "isolate"
        /\ fn' = [fn EXCEPT
                    !.held[ALPACA_ACCOUNTS[account]] =
                        IF allowed /\ \A p \in @ : p.symbol # symbol
                        THEN @ \cup {[symbol |-> symbol, account |-> account]}
                        ELSE @,
                    !.last = [account |-> account, closed |-> {}, counted |-> positions]]
        /\ UNCHANGED <<rk, rkOut, cap, cy, ex>>

\* force_close_all of the day trader and of signal echo: every position that
\* get_positions returns is closed
IsoForceCloseAll(account, ok) ==
    LET positions == IsoGetPositions(account, ok)
    IN  /\ fn.op = "isolate"
        /\ account \in {"day_trader", "signal_echo"}
        /\ fn' = [fn EXCEPT
                    !.held[ALPACA_ACCOUNTS[account]] = @ \ positions,
                    !.last = [account |-> account, closed |-> positions, counted |-> {}]]
        /\ UNCHANGED <<rk, rkOut, cap, cy, ex>>

IsoNext ==
    \E account \in IsoAccounts, ok \in BOOLEAN :
        \/ \E symbol \in IsoSymbols : IsoOpen(account, symbol, ok)
        \/ IsoForceCloseAll(account, ok)

SpecIsolation == IsoInit /\ [][IsoNext]_vars

\* C30: accounts are isolated: a cycle of one account never closes, counts as
\* invested or counts toward the position limit a position held for another
\* account, for every pair of configured accounts and every interleaving.
C30_AccountsIsolated ==
    fn.op = "isolate" =>
        \A p \in fn.last.closed \cup fn.last.counted : p.account = fn.last.account

\* ---------------------------------------------------------------------------
\* The limits tests/test_risk_manager.py expects of the configured accounts
\* ---------------------------------------------------------------------------
\* the call of TestRiskManager: RiskManager("quiver_strat"), no realized
\* P&L, every brokerage request answered, working capital 10,000
QuiverTestCall ==
    /\ RiskDone
    /\ rk.account = "quiver_strat"
    /\ rk.oks = AllOk
    /\ rkOut.wc = Dollars(10000)

\* C31: for quiver_strat as configured, with working capital 10,000, opening
\* 600 on top of 5,500 invested is rejected for exceeding max invested, and
\* opening 900 is rejected as exceeding the per-position maximum (800).
C31_QuiverTestLimits ==
    QuiverTestCall =>
        /\ (rkOut.invested = Dollars(5500) /\ rk.notional = Dollars(600)
                => rkOut.reason = "max_invested")
        /\ (rkOut.invested = 0 /\ rk.notional = Dollars(900)
                => rkOut.reason = "max_position")

\* ---------------------------------------------------------------------------
\* The trades of one day of one account: the rows of the trades table that
\* were created today and the opening orders the executor submitted today.
\* ---------------------------------------------------------------------------
MaxToday == 9

TdAccounts == {"day_trader", "autonomous", "signal_echo"}

\* len(db.get_todays_trades(account_id)): a failed read is answered with []
DbGetTodaysTrades(rows, ok) == IF ok THEN rows ELSE 0

NoAttempt ==
    [made |-> FALSE, rows |-> 0, readOk |-> TRUE, allowed |-> FALSE, count |-> 0,
     submitted |-> FALSE]

TdInit ==
    /\ \E a \in TdAccounts :
          fn = [op |-> "trades", account |-> a, rows |-> 0, orders |-> 0,
                last |-> NoAttempt]
    /\ rk = RiskIdle /\ rkOut = NoResult /\ cap = CapIdle /\ cy = CyIdle /\ ex = ExIdle

\* execute_setup, open_positions (one signal) and _open_position from the
\* trade-count check on: passes tells that the remaining checks approve and
\* the order is accepted, insertOk that insert_trade stores the row
TdOpen(readOk, passes, insertOk) ==
    LET check == CheckMaxTradesPerDay(ACCOUNT_CONFIGS[fn.account],
                                      DbGetTodaysTrades(fn.rows, readOk))
        submitted == check.allowed /\ passes
    IN  /\ fn.op = "trades"
        /\ fn.orders < MaxToday
        /\ fn' = [fn EXCEPT
                    !.orders = IF submitted THEN @ + 1 ELSE @,
                    !.rows = IF submitted /\ insertOk THEN @ + 1 ELSE @,
                    !.last = [made |-> TRUE, rows |-> fn.rows, readOk |-> readOk,
                              allowed |-> check.allowed, count |-> check.count,
                              submitted |-> submitted]]
        /\ UNCHANGED <<rk, rkOut, cap, cy, ex>>

\* the date changes: no row was created today
TdMidnight ==
    /\ fn.op = "trades"
    /\ fn.rows > 0
    /\ fn' = [fn EXCEPT !.rows = 0, !.orders = 0, !.last = NoAttempt]
    /\ UNCHANGED <<rk, rkOut, cap, cy, ex>>

TdNext ==
    \/ \E readOk, passes, insertOk \in BOOLEAN : TdOpen(readOk, passes, insertOk)
    \/ TdMidnight

SpecTrades == TdInit /\ [][TdNext]_vars

\* C32: for day_trader as configured, once 8 trades have been created today
\* check_max_trades_per_day returns (False, 8) and execute_setup opens no
\* ninth trade.
C32_DayTraderStopsAtEight ==
    (fn.op = "trades" /\ fn.account = "day_trader" /\ fn.last.made
         /\ fn.last.readOk /\ fn.last.rows = 8)
        => (~fn.last.allowed /\ fn.last.count = 8 /\ ~fn.last.submitted)

\* ---------------------------------------------------------------------------
\* Signal generation for one source (house_trading): the rows of the signals
\* table inside the lookback window, as (symbol, signal_type) keys, and the
\* calls that generate signals from the trades QuiverQuant reports.
\* ---------------------------------------------------------------------------
MaxData == 2

DdTickers == {"AAPL", "aapl", "TSLA"}

\* str.upper
Upper(ticker) == IF ticker = "aapl" THEN "AAPL" ELSE ticker

\* the reported trades: a purchase, a sale or an exchange, of a size under or
\* over min_trade_size_usd (15000)
DdTrades ==
    [Ticker : DdTickers, Transaction : {"Purchase", "Sale", "Exchange"},
     Trade_Size_USD : {10000, 75000}]

DdData == UNION {[1..n -> DdTrades] : n \in 1..MaxData}

DdKeys == {<<Upper(t), "house_trade">> : t \in DdTickers}

\* db.get_existing_signal_keys: a failed read is answered with set()
DbGetExistingSignalKeys(stored, ok) == IF ok THEN stored ELSE {}

\* _process_congressional_trades
ProcessCongressionalTrades(data, source, signal_type, existing) ==
    LET kept == SelectSeq(data, LAMBDA trade :
                    /\ trade.Trade_Size_USD >= 15000
                    /\ trade.Transaction \in {"Purchase", "Sale"}
                    /\ <<Upper(trade.Ticker), signal_type>> \notin existing)
    IN  [i \in 1..Len(kept) |->
            [source |-> source, signal_type |-> signal_type,
             symbol |-> Upper(kept[i].Ticker),
             direction |-> IF kept[i].Transaction = "Purchase" THEN "buy" ELSE "sell"]]

\* _process_house_trading(existing_keys): None is read as set()
ProcessHouseTrading(data, existing_keys) ==
    ProcessCongressionalTrades(data, "house_trading", "house_trade", existing_keys)

NoGeneration == [call |-> "none", stored |-> {}, signals |-> <<>>]

DdInit ==
    /\ fn = [op |-> "dedup", stored |-> {}, last |-> NoGeneration]
    /\ rk = RiskIdle /\ rkOut = NoResult /\ cap = CapIdle /\ cy = CyIdle /\ ex = ExIdle

SignalKeys(signals) ==
    {<<signals[i].symbol, signals[i].signal_type>> : i \in DOMAIN signals}

\* one analysis run: generate_all_signals, then db.insert_signals_batch
GenerateAllSignals(data, readOk, insertOk) ==
    /\ fn.op = "dedup"
    /\ fn' = [fn EXCEPT
                !.last = [call |-> "generate_all_signals", stored |-> fn.stored,
                          signals |-> ProcessHouseTrading(
                                          data, DbGetExistingSignalKeys(fn.stored, readOk))],
                !.stored = IF insertOk
                           THEN @ \cup SignalKeys(ProcessHouseTrading(
                                          data, DbGetExistingSignalKeys(fn.stored, readOk)))
                           ELSE @]
    /\ UNCHANGED <<rk, rkOut, cap, cy, ex>>

\* the source processor called on its own: _process_house_trading()
ProcessHouseTradingAlone(data) ==
    /\ fn.op = "dedup"
    /\ fn' = [fn EXCEPT
                !.last = [call |-> "_process_house_trading", stored |-> fn.stored,
                          signals |-> ProcessHouseTrading(data, {})]]
    /\ UNCHANGED <<rk, rkOut, cap, cy, ex>>

\* a stored signal becomes older than SIGNAL_MAX_AGE_HOURS
DdExpire(key) ==
    /\ fn.op = "dedup"
    /\ key \in fn.stored
    /\ fn' = [fn EXCEPT !.stored = @ \ {key}, !.last = NoGeneration]
    /\ UNCHANGED <<rk, rkOut, cap, cy, ex>>

DdNext ==
    \/ \E data \in DdData, readOk, insertOk \in BOOLEAN :
          GenerateAllSignals(data, readOk, insertOk)
    \/ \E data \in DdData : ProcessHouseTradingAlone(data)
    \/ \E key \in DdKeys : DdExpire(key)

SpecDedup == DdInit /\ [][DdNext]_vars

\* C33: a signal whose (symbol, signal type) is already stored for the same
\* source within the lookback window is not generated again, whether the
\* source processor is called on its own or through generate_all_signals.
C33_StoredSignalNotRegenerated ==
    fn.op = "dedup" => SignalKeys(fn.last.signals) \cap fn.last.stored = {}

\* ---------------------------------------------------------------------------
\* The orders the executor of an account submits in one cycle, before any of
\* them shows as a position.  The book is what the brokerage reports during
\* the cycle (market values are multiples of 100 dollars, no unrealized
\* P&L); subs lists the orders the last call submitted, each with the answer
\* can_open_position gave the call for that symbol and notional (FALSE when
\* it was not asked); cycle lists the notionals of the opens approved and
\* submitted so far; clean tells that no brokerage request of an open failed;
\* clock is what the market clock answers during the last call ("error": the
\* request fails), whether the call asks it or not.
\* ---------------------------------------------------------------------------
MaxBatch == 2

OrdAccounts == {"quiver_strat", "day_trader", "autonomous", "signal_echo"}

OrdBooks ==
    { << >>,
      <<Position("MSFT", Dollars(1500), 0)>>,
      <<Position("AAPL", Dollars(500), 0), Position("MSFT", Dollars(1500), 0)>>,
      <<Position("AAPL", Dollars(1000), 0), Position("MSFT", Dollars(1000), 0)>>,
      <<Position("MSFT", Dollars(7000), 0)>>,
      <<Position("MSFT", Dollars(8000), 0)>>,
      EvenBook(11, Dollars(100)),
      EvenBook(12, Dollars(100)) }

OrdSymbols == {"AAPL", "NVDA"}

\* trading.get_clock(): is_open, or the request fails
OrdClocks == {"open", "closed", "error"}

\* pie_allocations of the active pie: target weights in percent
OrdPies ==
    { <<[symbol |-> "AAPL", target_weight |-> 50],
        [symbol |-> "MSFT", target_weight |-> 50]>>,
      <<[symbol |-> "AAPL", target_weight |-> 20],
        [symbol |-> "MSFT", target_weight |-> 80]>>,
      <<[symbol |-> "NVDA", target_weight |-> 30],
        [symbol |-> "MSFT", target_weight |-> 70]>> }

OrdInit ==
    /\ \E a \in OrdAccounts, book \in OrdBooks :
          fn = [op |-> "orders", account |-> a, book |-> book, call |-> "none",
                subs |-> <<>>, cycle |-> <<>>, clean |-> TRUE, clock |-> "none"]
    /\ rk = RiskIdle /\ rkOut = NoResult /\ cap = CapIdle /\ cy = CyIdle /\ ex = ExIdle

\* the notional the executor of the account asks approval for
OrdSize(account, cfg, wc, confidence, size_pct) ==
    IF account \in {"quiver_strat", "autonomous"}
    THEN (CalculatePositionSize(cfg, wc, 100, NoVal) * size_pct) \div 100
    ELSE CalculatePositionSize(cfg, wc, confidence, NoVal)

\* what the call submits once the size is known
OrdSubmitted(symbol, size, tooSmall, d, submitOk) ==
    IF ~tooSmall /\ d.allowed /\ submitOk
    THEN <<[symbol |-> symbol, side |-> "buy", notional |-> size,
            approved |-> d.allowed]>>
    ELSE <<>>

OrdOpenSized(cfg, symbol, size, ok, submitOk) ==
    OrdSubmitted(symbol, size, size < 100 /\ fn.account # "day_trader",
                 CanOpenPosition(cfg, 0, fn.book, <<ok, ok, ok, ok>>, symbol, size),
                 submitOk)

\* AlpacaClient.is_market_open: a failed clock request is answered False
IsMarketOpen(clock) == clock = "open"

\* the executors that ask the market clock before they open: execute_signals
\* and execute_queued_orders, execute_setup, execute_decisions; open_positions
\* of signal echo does not
AsksClock(account) == account # "signal_echo"

OrdOpenOrders(symbol, confidence, size_pct, ok, submitOk) ==
    OrdOpenSized(ACCOUNT_CONFIGS[fn.account], symbol,
                 OrdSize(fn.account, ACCOUNT_CONFIGS[fn.account],
                         WorkingCapital(ACCOUNT_CONFIGS[fn.account], 0, fn.book, ok),
                         confidence, size_pct),
                 ok, submitOk)

\* the orders of an open that reached its size computation
OrdOpened(orders, ok, clock) ==
    [fn EXCEPT !.call = "open", !.clock = clock, !.clean = @ /\ ok,
               !.subs = orders,
               !.cycle = @ \o [i \in DOMAIN orders |-> orders[i].notional]]

\* Executor.execute_signals and execute_queued_orders with _execute_single,
\* execute_setup, open_positions (one signal) and execute_decisions with
\* _open_position, for one candidate whose other checks passed: the market
\* clock where the executor asks it (a closed market queues the candidate or
\* blocks it), then size, can_open_position, submit_market_order
OrdOpen(symbol, confidence, size_pct, clock, ok, submitOk) ==
    /\ fn.op = "orders"
    /\ Len(fn.cycle) < MaxBatch
    /\ fn' = IF AsksClock(fn.account) /\ ~IsMarketOpen(clock)
             THEN [fn EXCEPT !.call = "closed", !.clock = clock, !.subs = <<>>]
             ELSE OrdOpened(OrdOpenOrders(symbol, confidence, size_pct, ok, submitOk),
                            ok, clock)
    /\ UNCHANGED <<rk, rkOut, cap, cy, ex>>

\* position_map.get(symbol, 0), in cents
MarketValueOf(positions, symbol) ==
    SumSeq([i \in 1..Len(positions) |->
               IF positions[i].symbol = symbol THEN positions[i].market_value ELSE 0])

\* round(n / d, 0), a tie to the even neighbour
RoundDiv(n, d) ==
    IF 2 * (n % d) > d \/ (2 * (n % d) = d /\ (n \div d) % 2 = 1)
    THEN n \div d + 1 ELSE n \div d

\* the action of one allocation: weights in ten-thousandths, the current
\* weight as round(current_weight, 4)
RebalanceAction(alloc, current_value, total_invested) ==
    [symbol |-> alloc.symbol,
     needed |-> Abs(current_value * 100 - alloc.target_weight * total_invested)
                    > 10 * total_invested,
     target_weight |-> alloc.target_weight * 100,
     current_weight |-> RoundDiv((current_value \div 100) * 100, total_invested \div 10000)]

\* PieManager.check_rebalance_needed (drift threshold 0.10)
CheckRebalanceNeeded(pie, positions) ==
    IF GetInvestedValue(positions, TRUE) = 0 THEN <<>>
    ELSE SelectSeq([i \in 1..Len(pie) |->
                       RebalanceAction(pie[i], MarketValueOf(positions, pie[i].symbol),
                                       GetInvestedValue(positions, TRUE))],
                   LAMBDA a : a.needed)

\* invested * target_weight - invested * current_weight, in cents
Adjustment(invested, a) == (invested \div 10000) * (a.target_weight - a.current_weight)

\* Executor.execute_rebalance: adjustments under 10 dollars are skipped, every
\* other one is submitted
ExecuteRebalanceOrders(actions, invested, submitOk) ==
    LET due == SelectSeq(actions, LAMBDA a : ~(Abs(Adjustment(invested, a)) < Dollars(10)))
    IN  IF ~submitOk THEN <<>>
        ELSE [i \in 1..Len(due) |->
                [symbol |-> due[i].symbol,
                 side |-> IF Adjustment(invested, due[i]) > 0 THEN "buy" ELSE "sell",
                 notional |-> Abs(Adjustment(invested, due[i])),
                 approved |-> FALSE]]

\* run_analysis: pie_mgr.check_rebalance_needed(), executor.execute_rebalance
OrdRebalance(pie, clock, ok, submitOk) ==
    /\ fn.op = "orders"
    /\ fn.account = "quiver_strat"
    /\ fn' = [fn EXCEPT
                !.call = "rebalance",
                !.clock = clock,
                !.subs = IF ~IsMarketOpen(clock) THEN <<>>
                         ELSE ExecuteRebalanceOrders(
                                  CheckRebalanceNeeded(pie, GetPositions(fn.book, ok)),
                                  GetInvestedValue(fn.book, ok), submitOk)]
    /\ UNCHANGED <<rk, rkOut, cap, cy, ex>>

OrdNext ==
    \/ \E symbol \in OrdSymbols, confidence \in {50, 100}, size_pct \in {0, 50, 100},
          clock \in OrdClocks, ok, submitOk \in BOOLEAN :
          OrdOpen(symbol, confidence, size_pct, clock, ok, submitOk)
    \/ \E pie \in OrdPies, clock \in OrdClocks, ok, submitOk \in BOOLEAN :
          OrdRebalance(pie, clock, ok, submitOk)

SpecOrders == OrdInit /\ [][OrdNext]_vars

\* C34: every brokerage order that opens or increases a position is
\* submitted only after can_open_position approved the same symbol and
\* notional earlier in the same operation, on every executor path.
C34_BuyOnlyAfterApproval ==
    fn.op = "orders" =>
        \A i \in DOMAIN fn.subs : fn.subs[i].side = "buy" => fn.subs[i].approved

\* C35: within one cycle that approves several opens before the fills of
\* earlier orders are visible, the invested value at the start of the cycle
\* plus all notional approved in the cycle never exceeds working capital x
\* max_invested_pct, and the open-position count plus the number of approved
\* opens never exceeds the maximum position count (cycles in which no
\* brokerage request failed).
C35_CycleStaysWithinLimits ==
    (fn.op = "orders" /\ fn.clean) =>
        /\ fn.cycle # <<>> =>
             (GetInvestedValue(fn.book, TRUE) + SumSeq(fn.cycle)) * 100
                <= WorkingCapital(ACCOUNT_CONFIGS[fn.account], 0, fn.book, TRUE)
                     * MaxInvestedPct(ACCOUNT_CONFIGS[fn.account])
        /\ fn.cycle # <<>> =>
             GetPositionCount(fn.book, TRUE) + Len(fn.cycle)
                <= MaxPositions(ACCOUNT_CONFIGS[fn.account])

\* the close requested for the position in s by the handler that just ran
\* was refused by the brokerage, as every earlier one was: the position is
\* still held and no close is under way
CloseFailed(s) ==
    ex.act[s].requested /\ ex.pos[s].held /\ ~ex.pos[s].closing

\* C36: a trade is marked closed and an outcome is appended only when the
\* brokerage close request succeeded: if close_position fails, the trade
\* stays open and no outcome is recorded for the position.
C36_FailedCloseRecordsNothing ==
    \A s \in ExSymbolSet :
        CloseFailed(s) =>
            /\ ex.pos[s].outcomes = 0
            /\ ex.pos[s].trade # 0 => ex.trades[ex.pos[s].trade].status = "open"

\* C37: a failed trade-outcome fetch never changes the cached realized P&L:
\* a get_working_capital call whose outcome query failed got the last
\* successfully computed value (0 if there is none) from _get_realized_pnl and
\* left the cached value and the cache timestamp as they were.
C37_FailedFetchKeepsCache ==
    [][(cap'.out.called /\ cap'.out.fetched /\ ~cap'.out.dbOk)
          => /\ cap'.cache = cap.cache
             /\ cap'.cacheTime = cap.cacheTime
             /\ cap'.out.realized = (IF cap.cache.set THEN cap.cache.pnl ELSE 0)]_vars

\* ---------------------------------------------------------------------------
\* The pending_orders table of Account 1: rows queued while the market was
\* closed and the runs of execute_queued_orders.  Every row is for a symbol
\* of its own; held tells that the brokerage shows a position in it.
\* orders, processed and late count what happened to the row: brokerage
\* orders submitted for it, runs that processed it, orders submitted after
\* it had become older than QUEUE_MAX_AGE_HOURS.
\* ---------------------------------------------------------------------------
MaxQueued == 2
MaxSubmits == 2

QuInit ==
    /\ fn = [op |-> "queue", rows |-> <<>>]
    /\ rk = RiskIdle /\ rkOut = NoResult /\ cap = CapIdle /\ cy = CyIdle /\ ex = ExIdle

\* execute_signals with the market closed: _queue_signals inserts a row
\* (one approved signal; insertOk: the insert succeeds)
QueueSignals(insertOk) ==
    /\ fn.op = "queue"
    /\ Len(fn.rows) < MaxQueued
    /\ fn' = [fn EXCEPT
                !.rows = IF insertOk
                         THEN Append(@, [status |-> "pending", expired |-> FALSE,
                                         held |-> FALSE, orders |-> 0,
                                         processed |-> 0, late |-> 0])
                         ELSE @]
    /\ UNCHANGED <<rk, rkOut, cap, cy, ex>>

\* _get_pending_orders: the pending rows not older than the cutoff, [] when
\* the query fails
GetPendingOrders(rows, ok) ==
    IF ok THEN {i \in DOMAIN rows : rows[i].status = "pending" /\ ~rows[i].expired}
    ELSE {}

\* _execute_single for a queued row, then _mark_order_executed: approves
\* tells that the checks other than "already holding" pass
ProcessRow(row, approves, submitOk, markOk) ==
    [row EXCEPT
       !.processed = @ + 1,
       !.orders = IF approves /\ ~row.held /\ submitOk THEN @ + 1 ELSE @,
       !.late = IF approves /\ ~row.held /\ submitOk /\ row.expired THEN @ + 1 ELSE @,
       !.status = IF ~markOk THEN @
                  ELSE IF approves /\ ~row.held /\ submitOk THEN "executed"
                  ELSE "failed"]

\* Executor.execute_queued_orders
ExecuteQueuedOrders(marketOpen, readOk, approves, submitOk, markOk) ==
    /\ fn.op = "queue"
    /\ \A i \in DOMAIN fn.rows : fn.rows[i].processed < MaxSubmits
    /\ fn' = [fn EXCEPT
                !.rows = [i \in DOMAIN fn.rows |->
                            IF marketOpen /\ i \in GetPendingOrders(fn.rows, readOk)
                            THEN ProcessRow(fn.rows[i], approves, submitOk, markOk)
                            ELSE fn.rows[i]]]
    /\ UNCHANGED <<rk, rkOut, cap, cy, ex>>

\* the order submitted for a row fills: the position shows at the brokerage
QuFill(i) ==
    /\ fn.op = "queue"
    /\ i \in DOMAIN fn.rows
    /\ fn.rows[i].orders > 0 /\ ~fn.rows[i].held
    /\ fn' = [fn EXCEPT !.rows[i].held = TRUE]
    /\ UNCHANGED <<rk, rkOut, cap, cy, ex>>

\* check_exit_conditions closes the position
QuClose(i) ==
    /\ fn.op = "queue"
    /\ i \in DOMAIN fn.rows
    /\ fn.rows[i].held
    /\ fn' = [fn EXCEPT !.rows[i].held = FALSE]
    /\ UNCHANGED <<rk, rkOut, cap, cy, ex>>

\* a row becomes older than QUEUE_MAX_AGE_HOURS
QuExpire(i) ==
    /\ fn.op = "queue"
    /\ i \in DOMAIN fn.rows
    /\ ~fn.rows[i].expired
    /\ fn' = [fn EXCEPT !.rows[i].expired = TRUE]
    /\ UNCHANGED <<rk, rkOut, cap, cy, ex>>

QuNext ==
    \/ \E insertOk \in BOOLEAN : QueueSignals(insertOk)
    \/ \E marketOpen, readOk, approves, submitOk, markOk \in BOOLEAN :
          ExecuteQueuedOrders(marketOpen, readOk, approves, submitOk, markOk)
    \/ \E i \in 1..MaxQueued : QuFill(i) \/ QuClose(i) \/ QuExpire(i)

SpecQueue == QuInit /\ [][QuNext]_vars

\* C38: each queued pending order leads to at most one submitted brokerage
\* order: once execute_queued_orders has processed a row it is marked
\* executed or failed and is never selected by a later run, also when the
\* status update fails, and a row older than the queue's maximum age is never
\* executed.
C38_QueuedRowExecutedOnce ==
    fn.op = "queue" =>
        \A i \in DOMAIN fn.rows :
            /\ fn.rows[i].orders <= 1
            /\ fn.rows[i].processed <= 1
            /\ fn.rows[i].processed > 0 => fn.rows[i].status \in {"executed", "failed"}
            /\ fn.rows[i].late = 0

\* C39: no executor submits an order to open a position while the brokerage
\* reports the market closed or while the market-clock query fails.
C39_NoOpenWhileMarketClosed ==
    (fn.op = "orders" /\ fn.call # "none" /\ ~IsMarketOpen(fn.clock))
        => \A i \in DOMAIN fn.subs : fn.subs[i].side # "buy"

\* ---------------------------------------------------------------------
\* The day-trader cooldown: should_cooldown of the adaptive engine inside
\* the market-hours loop of run_loop.  fn.outcomes is the day trader's
\* trade_outcomes table, newest row first (the realized P&L of each row, in
\* cents); fn.held says whether a position is open; fn.scans counts the
\* iterations of the intraday loop of the current day; fn.last is what the
\* last run_intraday_cycle did; fn.cooled is the market time in minutes since
\* the cooldown that is running began.
\* ---------------------------------------------------------------------

MAX_CONSECUTIVE_LOSSES_BEFORE_COOLDOWN == 5
COOLDOWN_MINUTES == 30
\* scan_interval_seconds of SCANNER, in minutes
ScanIntervalMinutes == 2
\* the limit should_cooldown passes to get_trade_outcomes
CooldownReadLimit == 10

\* rows of trade_outcomes the model keeps: more than the five newest rows,
\* the only ones the answer of should_cooldown depends on
MaxHistory == 6
\* iterations of the intraday loop between TRADING_START and FORCE_CLOSE
MaxDayScans == 3

CdPnls == {0 - 500, 800}

CdKeep(rows) ==
    IF Len(rows) > MaxHistory THEN SubSeq(rows, 1, MaxHistory) ELSE rows

\* Database.get_trade_outcomes: the newest rows up to the limit, [] when the
\* request fails
CdGetTradeOutcomes(rows, limit, ok) ==
    IF ~ok THEN <<>>
    ELSE IF Len(rows) > limit THEN SubSeq(rows, 1, limit) ELSE rows

\* the loop of should_cooldown: the losses in a row from row i on
RECURSIVE ConsecutiveLosses(_, _)
ConsecutiveLosses(outcomes, i) ==
    IF i > Len(outcomes) THEN 0
    ELSE IF outcomes[i] < 0 THEN 1 + ConsecutiveLosses(outcomes, i + 1)
    ELSE 0

\* AdaptiveEngine.should_cooldown
ShouldCooldown(rows, ok) ==
    ConsecutiveLosses(CdGetTradeOutcomes(rows, CooldownReadLimit, ok), 1)
        >= MAX_CONSECUTIVE_LOSSES_BEFORE_COOLDOWN

CdCooledCap == COOLDOWN_MINUTES + ScanIntervalMinutes

CdInit ==
    /\ fn = [op |-> "cooldown", outcomes |-> <<>>, held |-> FALSE, scans |-> 0,
             last |-> "none", cooled |-> 0]
    /\ rk = RiskIdle /\ rkOut = NoResult /\ cap = CapIdle /\ cy = CyIdle
    /\ ex = ExIdle

\* _close_and_record of the day trader: the outcome row of the closed position
CdRecorded(rows, pnl, insertOk) ==
    IF insertOk THEN CdKeep(<<pnl>> \o rows) ELSE rows

\* one iteration of the intraday loop of run_loop: run_intraday_cycle (it
\* returns at once when should_cooldown answers true, else it scans and
\* execute_setup may open a position), then manage_positions (a held position
\* that reached its stop or its target is closed and its outcome recorded),
\* then the sleep of one scan interval
CdIteration(readOk, setup, move, pnl, insertOk) ==
    /\ fn.op = "cooldown" /\ fn.scans < MaxDayScans
    /\ (move = "stop") = (pnl < 0)
    /\ fn' = [fn EXCEPT
                !.last = IF ShouldCooldown(fn.outcomes, readOk) THEN "skipped"
                         ELSE "scanned",
                !.held = IF move = "hold"
                         THEN fn.held \/ (setup /\ ~ShouldCooldown(fn.outcomes, readOk))
                         ELSE FALSE,
                !.outcomes = IF move # "hold"
                                /\ (fn.held \/ (setup /\ ~ShouldCooldown(fn.outcomes, readOk)))
                             THEN CdRecorded(fn.outcomes, pnl, insertOk) ELSE @,
                !.scans = @ + 1,
                !.cooled = IF ~ShouldCooldown(fn.outcomes, readOk) THEN 0
                           ELSE IF fn.last # "skipped" THEN 0
                           ELSE IF @ + ScanIntervalMinutes > CdCooledCap THEN CdCooledCap
                           ELSE @ + ScanIntervalMinutes]
    /\ UNCHANGED <<rk, rkOut, cap, cy, ex>>

\* the end of the trading day: force_close_all closes what is held and
\* records its outcome; the next run_loop starts the next day, a night later
CdEndOfDay(pnl, insertOk) ==
    /\ fn.op = "cooldown" /\ fn.scans = MaxDayScans
    /\ fn' = [fn EXCEPT
                !.held = FALSE,
                !.outcomes = IF fn.held THEN CdRecorded(fn.outcomes, pnl, insertOk)
                             ELSE @,
                !.scans = 0,
                !.cooled = IF fn.last = "skipped" THEN CdCooledCap ELSE @]
    /\ UNCHANGED <<rk, rkOut, cap, cy, ex>>

CdLoop ==
    \E readOk \in BOOLEAN, setup \in BOOLEAN, move \in {"hold", "stop", "target"},
       pnl \in CdPnls, insertOk \in BOOLEAN :
        CdIteration(readOk, setup, move, pnl, insertOk)

CdClose ==
    \E pnl \in CdPnls, insertOk \in BOOLEAN : CdEndOfDay(pnl, insertOk)

CdNext ==
    \/ CdLoop
    \/ CdClose

SpecCooldown == CdInit /\ [][CdNext]_vars

\* the loop runs an iteration every scan interval of every trading day, and
\* every trading day ends (the while loops of run_loop, started daily)
SpecCooldownFair ==
    /\ CdInit
    /\ [][CdNext]_vars
    /\ WF_vars(CdLoop)
    /\ WF_vars(CdClose)

\* the last intraday cycle was skipped because should_cooldown answered true
CooldownActive ==
    fn.op = "cooldown" /\ fn.last = "skipped"

\* the last intraday cycle scanned for trades
CycleScanned ==
    fn.op = "cooldown" /\ fn.last = "scanned"

\* C40: the day-trader cooldown is temporary: once should_cooldown has
\* answered true, it later answers false again and an intraday cycle scans
\* for trades, also when no position is open.
C40_CooldownEnds ==
    CooldownActive ~> CycleScanned

\* the cooldown has lasted longer than COOLDOWN_MINUTES of market time with
\* no position open
CooldownWithinMinutes ==
    (CooldownActive /\ ~fn.held) => fn.cooled <= COOLDOWN_MINUTES

====
